---- MODULE Spec2Model ----
(***************************************************************************)
(* es-observable.  Five specifications share this module.                  *)
(*                                                                         *)
(* Spec: the subscription lifecycle of one SubscriptionObserver (the       *)
(* subscription state machine) wrapping one raw observer, driven by        *)
(* arbitrary user code.  JavaScript is single threaded, so the state is    *)
(* the object's two fields plus the call stack.  User code (the subscriber *)
(* function, the raw observer's property getters and handlers, the cleanup *)
(* function and the code that called observe) is adversarial: at every     *)
(* step it may call next/error/complete/cancel re-entrantly, return, or    *)
(* throw.                                                                  *)
(*                                                                         *)
(* SpecObs: the Observable layer, with Observable objects made by the      *)
(* constructor, of, from, map and filter, several subscriptions, and the   *)
(* job queue.                                                              *)
(*                                                                         *)
(* SpecFair: SpecObs under a fair scheduler and with user code that        *)
(* returns, for the properties of progress.                                *)
(*                                                                         *)
(* SpecEach: the same layer with forEach as the consumer: the observer     *)
(* object literal of forEach and the Promise it settles.                   *)
(*                                                                         *)
(* SpecPipeline: the program of the README, of(...) mapped, filtered and   *)
(* consumed by forEach, with the callbacks of that program.                *)
(***************************************************************************)
EXTENDS Naturals, Sequences, FiniteSets, TLC

\* Bound on the number of next/error/complete/cancel calls made by user code.
MaxCalls == 3

\* JavaScript values, by the classes the code distinguishes.
Undefined == "undefined"      \* undefined or null (value == null)
Function  == "function"       \* typeof value === "function"
Values    == {"a", "b"}       \* any other value; also the values user code throws
TypeError == "TypeError"      \* a TypeError created by the library
None      == "none"           \* model-level "no information"

Keys == {"next", "error", "complete"}
UserKinds == {"main", "subscriber", "getter", "handler", "cleanup"}

VARIABLES
    _observer,          \* SubscriptionObserver._observer: "observer" or Undefined
                        \* (None while no SubscriptionObserver exists)
    _cleanup,           \* SubscriptionObserver._cleanup: Function or Undefined
    stack,              \* the call stack, bottom first
    ret,                \* completion record of the call that returned last
    observed,           \* progress of Observable.observe
    calls,              \* number of calls user code has made on the subscription
    cleanupCalls,       \* number of times the cleanup function was invoked
    lookups,            \* per key, number of reads of that raw-observer property
    invoked,            \* per key, number of invocations of that raw-observer method
    cancelled,          \* cancel() has closed the subscription
    subscriberResult,   \* completion of the subscriber function
    errorReceived       \* value passed to the raw observer's error method

vars == <<_observer, _cleanup, stack, ret, observed, calls, cleanupCalls,
          lookups, invoked, cancelled, subscriberResult, errorReceived>>

\* The state of the Observable layer (Observable objects, their
\* subscriptions and the job queue), used by the second specification, SpecObs.
VARIABLES
    observables,        \* the Observable objects created so far
    subscriptions,      \* the SubscriptionObserver objects created so far
    jobs,               \* the queue of enqueueJob, oldest first
    callStack,          \* the call stack, bottom first
    completion,         \* completion record of the call that returned last
    delivered,          \* per subscription, the raw-observer methods invoked
    producerCalls,      \* per Observable, invocations of its _subscriber
    observeCalls,       \* per Observable, calls of observe
    cleanupRuns,        \* per subscription, invocations of its cleanup
    userCalls,          \* number of library calls user code has made
    callbackLog,        \* per subscription of map/filter, the calls of fn
    promises            \* the Promise objects forEach has returned

obsVars == <<observables, subscriptions, jobs, callStack, completion,
             delivered, producerCalls, observeCalls, cleanupRuns, userCalls,
             callbackLog, promises>>

\* no Observable exists
NoObservables ==
    /\ observables = <<>>
    /\ subscriptions = <<>>
    /\ jobs = <<>>
    /\ callStack = <<>>
    /\ completion = [type |-> None, val |-> None]
    /\ delivered = <<>>
    /\ producerCalls = <<>>
    /\ observeCalls = <<>>
    /\ cleanupRuns = <<>>
    /\ userCalls = 0
    /\ callbackLog = <<>>
    /\ promises = <<>>

----------------------------------------------------------------------------
\* Stack frames and completion records

NoFrame == [kind |-> None, pc |-> None, key |-> None, arg |-> None,
            m |-> None, exc |-> None, res |-> None, cleanupExc |-> None]

Frame(kind, pc, key, arg) == [NoFrame EXCEPT !.kind = kind, !.pc = pc,
                                             !.key = key, !.arg = arg]

NoRet == [type |-> None, val |-> None, of |-> NoFrame]
NormalCompletion(v, f) == [type |-> "normal", val |-> v, of |-> f]
ThrowCompletion(e, f) == [type |-> "throw", val |-> e, of |-> f]

Top == stack[Len(stack)]
Below == SubSeq(stack, 1, Len(stack) - 1)

Bump(f, key) == [f EXCEPT ![key] = @ + 1]

\* frame f, recording the exception (if any) of the completion r it swallowed
Swallowed(f, r) ==
    [f EXCEPT !.cleanupExc = IF r.type = "throw" THEN r.val ELSE None]

----------------------------------------------------------------------------
\* Abstract operations

subscriptionClosed == _observer = Undefined

\* obj[key]: run the property read (user code when it is a getter) on behalf
\* of frame f, which waits for the value.
getMethod(cs, f, key) ==
    /\ stack' = cs \o <<f, Frame("getter", "run", key, None)>>
    /\ lookups' = Bump(lookups, key)
    /\ ret' = NoRet

\* a getMethod that treats a value that is not a function as absent
getMethodResultLenient(r) ==
    IF r.type = "throw" THEN [type |-> "throw", val |-> r.val]
    ELSE IF r.val # Function THEN [type |-> "normal", val |-> Undefined]
    ELSE [type |-> "normal", val |-> Function]

\* What getMethod hands back for the completion r of the property read.
getMethodResult(r) ==
    IF r.type = "throw" THEN [type |-> "throw", val |-> r.val]
    ELSE IF r.val = Undefined THEN [type |-> "normal", val |-> Undefined]
    ELSE IF r.val # Function THEN [type |-> "throw", val |-> TypeError]
    ELSE [type |-> "normal", val |-> Function]

\* a cleanupSubscription that calls the cleanup function without emptying the
\* slot
cleanupSubscriptionKeepsSlot(cs, f, c) ==
    IF _cleanup = Undefined
    THEN /\ stack' = cs
         /\ ret' = c
         /\ UNCHANGED <<_cleanup, cleanupCalls>>
    ELSE /\ UNCHANGED _cleanup
         /\ cleanupCalls' = cleanupCalls + 1
         /\ stack' = cs \o <<f, Frame("cleanup", "run", None, None)>>
         /\ ret' = NoRet

\* cleanupSubscription called by frame f (caller stack cs).  Without a stored
\* cleanup it returns at once and f finishes with completion c; otherwise the
\* slot is emptied and the cleanup function runs while f waits.
cleanupSubscription(cs, f, c) ==
    IF _cleanup = Undefined
    THEN /\ stack' = cs
         /\ ret' = c
         /\ UNCHANGED <<_cleanup, cleanupCalls>>
    ELSE /\ _cleanup' = Undefined
         /\ cleanupCalls' = cleanupCalls + 1
         /\ stack' = cs \o <<f, Frame("cleanup", "run", None, None)>>
         /\ ret' = NoRet

----------------------------------------------------------------------------
\* SubscriptionObserver.cancel

\* cancel that closes the subscription but forgets cleanupSubscription
cancelForgetsCleanup(cs) ==
    IF subscriptionClosed
    THEN /\ stack' = cs
         /\ ret' = NormalCompletion(Undefined, Frame("cancel", "closed", None, None))
         /\ UNCHANGED <<_observer, _cleanup, cleanupCalls, lookups, invoked,
                        cancelled, errorReceived>>
    ELSE /\ _observer' = Undefined
         /\ cancelled' = TRUE
         /\ stack' = cs
         /\ ret' = NormalCompletion(Undefined, Frame("cancel", "done", None, None))
         /\ UNCHANGED <<_cleanup, cleanupCalls, lookups, invoked, errorReceived>>

\* cancel without the closed check
cancelUnguarded(cs) ==
    /\ _observer' = Undefined
    /\ cancelled' = TRUE
    /\ cleanupSubscription(cs, Frame("cancel", "cleanup", None, None),
           NormalCompletion(Undefined, Frame("cancel", "done", None, None)))
    /\ UNCHANGED <<lookups, invoked, errorReceived>>

cancel(cs) ==
    IF subscriptionClosed
    THEN /\ stack' = cs
         /\ ret' = NormalCompletion(Undefined, Frame("cancel", "closed", None, None))
         /\ UNCHANGED <<_observer, _cleanup, cleanupCalls, lookups, invoked,
                        cancelled, errorReceived>>
    ELSE /\ _observer' = Undefined
         /\ cancelled' = TRUE
         /\ cleanupSubscription(cs, Frame("cancel", "cleanup", None, None),
                NormalCompletion(Undefined, Frame("cancel", "done", None, None)))
         /\ UNCHANGED <<lookups, invoked, errorReceived>>

\* the cleanup function called by cancel has finished
cancelCleanup ==
    /\ Top.kind = "cancel"
    /\ stack' = Below
    /\ ret' = [ret EXCEPT !.of = Top]
    /\ UNCHANGED <<_observer, _cleanup, observed, calls, cleanupCalls, lookups,
                   invoked, cancelled, subscriberResult, errorReceived>>

----------------------------------------------------------------------------
\* SubscriptionObserver.next

next(cs, v) ==
    IF subscriptionClosed
    THEN /\ stack' = cs
         /\ ret' = NormalCompletion(Undefined, Frame("next", "closed", None, v))
         /\ UNCHANGED <<_observer, _cleanup, cleanupCalls, lookups, invoked,
                        cancelled, errorReceived>>
    ELSE /\ getMethod(cs, Frame("next", "lookup", None, v), "next")
         /\ UNCHANGED <<_observer, _cleanup, cleanupCalls, invoked, cancelled,
                        errorReceived>>

\* catch (e) { try { this.cancel() } ... : frame f has caught e and calls cancel
nextCatch(f, e) ==
    cancel(Below \o <<[f EXCEPT !.pc = "catch", !.exc = e]>>)

\* a catch block in which an exception of cancel replaces the caught one
nextRethrowCancelWins(f, r) ==
    ThrowCompletion(IF r.type = "throw" THEN r.val ELSE f.exc, Swallowed(f, r))

\* ... finally { throw e } }: what next throws once cancel has completed with r
nextRethrow(f, r) == ThrowCompletion(f.exc, Swallowed(f, r))

\* getMethod(observer, "next") has completed
nextLookup ==
    /\ Top.kind = "next" /\ Top.pc = "lookup"
    /\ LET g == getMethodResult(ret) IN
       IF g.type = "throw"
       THEN nextCatch(Top, g.val)
       ELSE IF g.val = Undefined
       THEN /\ stack' = Below
            /\ ret' = NormalCompletion(Undefined,
                          [Top EXCEPT !.pc = "done", !.m = Undefined])
            /\ UNCHANGED <<_observer, _cleanup, cleanupCalls, lookups, invoked,
                           cancelled, errorReceived>>
       ELSE /\ stack' = Below \o <<[Top EXCEPT !.pc = "invoke", !.m = Function],
                                   Frame("handler", "run", "next", Top.arg)>>
            /\ invoked' = Bump(invoked, "next")
            /\ ret' = NoRet
            /\ UNCHANGED <<_observer, _cleanup, cleanupCalls, lookups,
                           cancelled, errorReceived>>
    /\ UNCHANGED <<observed, calls, subscriberResult>>

\* m.call(observer, value) has completed
nextInvoke ==
    /\ Top.kind = "next" /\ Top.pc = "invoke"
    /\ IF ret.type = "throw"
       THEN nextCatch(Top, ret.val)
       ELSE /\ stack' = Below
            /\ ret' = NormalCompletion(ret.val,
                          [Top EXCEPT !.pc = "done", !.res = ret.val])
            /\ UNCHANGED <<_observer, _cleanup, cleanupCalls, lookups, invoked,
                           cancelled, errorReceived>>
    /\ UNCHANGED <<observed, calls, subscriberResult>>

\* this.cancel() in the catch block has completed
nextCatchDone ==
    /\ Top.kind = "next" /\ Top.pc = "catch"
    /\ stack' = Below
    /\ ret' = nextRethrow(Top, ret)
    /\ UNCHANGED <<_observer, _cleanup, observed, calls, cleanupCalls, lookups,
                   invoked, cancelled, subscriberResult, errorReceived>>

----------------------------------------------------------------------------
\* SubscriptionObserver.error

\* error that, like complete, returns silently on a closed subscription
errorClosedSilent(cs, v) ==
    /\ stack' = cs
    /\ ret' = NormalCompletion(Undefined, Frame("error", "closed", None, v))
    /\ UNCHANGED <<_observer, _cleanup, cleanupCalls, lookups, invoked,
                   cancelled, errorReceived>>

\* error(value) on a closed subscription
errorClosed(cs, v) ==
    /\ stack' = cs
    /\ ret' = ThrowCompletion(v, Frame("error", "closed", None, v))
    /\ UNCHANGED <<_observer, _cleanup, cleanupCalls, lookups, invoked,
                   cancelled, errorReceived>>

\* error that looks the method up without clearing the observer first
errorOpenKeepsObserver(cs, v) ==
    /\ getMethod(cs, Frame("error", "lookup", None, v), "error")
    /\ UNCHANGED <<_observer, _cleanup, cleanupCalls, invoked, cancelled,
                   errorReceived>>

\* error(value) on an open subscription: clear the observer, then look up
errorOpen(cs, v) ==
    /\ _observer' = Undefined
    /\ getMethod(cs, Frame("error", "lookup", None, v), "error")
    /\ UNCHANGED <<_cleanup, cleanupCalls, invoked, cancelled, errorReceived>>

error(cs, v) ==
    IF subscriptionClosed THEN errorClosed(cs, v) ELSE errorOpen(cs, v)

\* catch (e) { try { cleanupSubscription(this) } ...
errorCatch(f, e) ==
    LET c == [f EXCEPT !.pc = "catch", !.exc = e] IN
    cleanupSubscription(Below, c, ThrowCompletion(e, c))

\* a catch block in which an exception of the cleanup replaces the caught one
errorRethrowCleanupWins(f, r) ==
    ThrowCompletion(IF r.type = "throw" THEN r.val ELSE f.exc, Swallowed(f, r))

\* ... finally { throw e } }: what error throws once the cleanup completed with r
errorRethrow(f, r) == ThrowCompletion(f.exc, Swallowed(f, r))

\* an error that empties the cleanup slot and counts the cleanup as called
\* before it invokes the handler
errorLookupCleansFirst ==
    /\ Top.kind = "error" /\ Top.pc = "lookup"
    /\ LET g == getMethodResult(ret) IN
       IF g.type = "throw"
       THEN /\ errorCatch(Top, g.val)
            /\ UNCHANGED <<invoked, errorReceived>>
       ELSE IF g.val = Undefined
       THEN /\ errorCatch([Top EXCEPT !.m = Undefined], Top.arg)
            /\ UNCHANGED <<invoked, errorReceived>>
       ELSE /\ stack' = Below \o <<[Top EXCEPT !.pc = "invoke", !.m = Function],
                                   Frame("handler", "run", "error", Top.arg)>>
            /\ invoked' = Bump(invoked, "error")
            /\ errorReceived' = Top.arg
            /\ ret' = NoRet
            /\ _cleanup' = Undefined
            /\ cleanupCalls' = IF _cleanup = Undefined THEN cleanupCalls
                               ELSE cleanupCalls + 1
    /\ UNCHANGED <<_observer, observed, calls, lookups, cancelled, subscriberResult>>

\* getMethod(observer, "error") has completed
errorLookup ==
    /\ Top.kind = "error" /\ Top.pc = "lookup"
    /\ LET g == getMethodResult(ret) IN
       IF g.type = "throw"
       THEN /\ errorCatch(Top, g.val)
            /\ UNCHANGED <<invoked, errorReceived>>
       ELSE IF g.val = Undefined
       THEN /\ errorCatch([Top EXCEPT !.m = Undefined], Top.arg)
            /\ UNCHANGED <<invoked, errorReceived>>
       ELSE /\ stack' = Below \o <<[Top EXCEPT !.pc = "invoke", !.m = Function],
                                   Frame("handler", "run", "error", Top.arg)>>
            /\ invoked' = Bump(invoked, "error")
            /\ errorReceived' = Top.arg
            /\ ret' = NoRet
            /\ UNCHANGED <<_cleanup, cleanupCalls>>
    /\ UNCHANGED <<_observer, observed, calls, lookups, cancelled, subscriberResult>>

\* m.call(observer, value) has completed
errorInvoke ==
    /\ Top.kind = "error" /\ Top.pc = "invoke"
    /\ IF ret.type = "throw"
       THEN errorCatch(Top, ret.val)
       ELSE LET c == [Top EXCEPT !.pc = "cleanup", !.res = ret.val] IN
            cleanupSubscription(Below, c, NormalCompletion(ret.val, c))
    /\ UNCHANGED <<_observer, observed, calls, lookups, invoked, cancelled,
                   subscriberResult, errorReceived>>

\* an error that returns the handler's value although the cleanup function
\* threw
errorCleanupSwallows ==
    /\ Top.kind = "error" /\ Top.pc = "cleanup"
    /\ stack' = Below
    /\ ret' = NormalCompletion(Top.res, Top)
    /\ UNCHANGED <<_observer, _cleanup, observed, calls, cleanupCalls, lookups,
                   invoked, cancelled, subscriberResult, errorReceived>>

\* cleanupSubscription(this); return value;  (the cleanup function has completed)
errorCleanup ==
    /\ Top.kind = "error" /\ Top.pc = "cleanup"
    /\ stack' = Below
    /\ ret' = IF ret.type = "throw" THEN ThrowCompletion(ret.val, Top)
              ELSE NormalCompletion(Top.res, Top)
    /\ UNCHANGED <<_observer, _cleanup, observed, calls, cleanupCalls, lookups,
                   invoked, cancelled, subscriberResult, errorReceived>>

\* the cleanup function called from the catch block has completed
errorCatchDone ==
    /\ Top.kind = "error" /\ Top.pc = "catch"
    /\ stack' = Below
    /\ ret' = errorRethrow(Top, ret)
    /\ UNCHANGED <<_observer, _cleanup, observed, calls, cleanupCalls, lookups,
                   invoked, cancelled, subscriberResult, errorReceived>>

----------------------------------------------------------------------------
\* SubscriptionObserver.complete

\* complete(value) on a closed subscription
completeClosed(cs, v) ==
    /\ stack' = cs
    /\ ret' = NormalCompletion(Undefined, Frame("complete", "closed", None, v))
    /\ UNCHANGED <<_observer, _cleanup, cleanupCalls, lookups, invoked,
                   cancelled, errorReceived>>

\* complete that looks the method up without clearing the observer
completeOpenKeepsObserver(cs, v) ==
    /\ getMethod(cs, Frame("complete", "lookup", None, v), "complete")
    /\ UNCHANGED <<_observer, _cleanup, cleanupCalls, invoked, cancelled,
                   errorReceived>>

\* complete(value) on an open subscription: clear the observer, then look up
completeOpen(cs, v) ==
    /\ _observer' = Undefined
    /\ getMethod(cs, Frame("complete", "lookup", None, v), "complete")
    /\ UNCHANGED <<_cleanup, cleanupCalls, invoked, cancelled, errorReceived>>

\* complete without the closed check
completeUnguarded(cs, v) == completeOpen(cs, v)

complete(cs, v) ==
    IF subscriptionClosed THEN completeClosed(cs, v) ELSE completeOpen(cs, v)

\* catch (e) { try { cleanupSubscription(this) } ...
completeCatch(f, e) ==
    LET c == [f EXCEPT !.pc = "catch", !.exc = e] IN
    cleanupSubscription(Below, c, ThrowCompletion(e, c))

\* ... finally { throw e } }
completeRethrow(f, r) == ThrowCompletion(f.exc, Swallowed(f, r))

\* getMethod(observer, "complete") has completed
completeLookup ==
    /\ Top.kind = "complete" /\ Top.pc = "lookup"
    /\ LET g == getMethodResult(ret) IN
       IF g.type = "throw"
       THEN /\ completeCatch(Top, g.val)
            /\ UNCHANGED invoked
       ELSE IF g.val = Undefined
       THEN /\ LET c == [Top EXCEPT !.pc = "cleanup", !.m = Undefined,
                                    !.res = Undefined] IN
               cleanupSubscription(Below, c, NormalCompletion(Undefined, c))
            /\ UNCHANGED invoked
       ELSE /\ stack' = Below \o <<[Top EXCEPT !.pc = "invoke", !.m = Function],
                                   Frame("handler", "run", "complete", Top.arg)>>
            /\ invoked' = Bump(invoked, "complete")
            /\ ret' = NoRet
            /\ UNCHANGED <<_cleanup, cleanupCalls>>
    /\ UNCHANGED <<_observer, observed, calls, lookups, cancelled,
                   subscriberResult, errorReceived>>

\* m.call(observer, value) has completed
completeInvoke ==
    /\ Top.kind = "complete" /\ Top.pc = "invoke"
    /\ IF ret.type = "throw"
       THEN completeCatch(Top, ret.val)
       ELSE LET c == [Top EXCEPT !.pc = "cleanup", !.res = ret.val] IN
            cleanupSubscription(Below, c, NormalCompletion(ret.val, c))
    /\ UNCHANGED <<_observer, observed, calls, lookups, invoked, cancelled,
                   subscriberResult, errorReceived>>

\* cleanupSubscription(this); return value;  (the cleanup function has completed)
completeCleanup ==
    /\ Top.kind = "complete" /\ Top.pc = "cleanup"
    /\ stack' = Below
    /\ ret' = IF ret.type = "throw" THEN ThrowCompletion(ret.val, Top)
              ELSE NormalCompletion(Top.res, Top)
    /\ UNCHANGED <<_observer, _cleanup, observed, calls, cleanupCalls, lookups,
                   invoked, cancelled, subscriberResult, errorReceived>>

\* the cleanup function called from the catch block has completed
completeCatchDone ==
    /\ Top.kind = "complete" /\ Top.pc = "catch"
    /\ stack' = Below
    /\ ret' = completeRethrow(Top, ret)
    /\ UNCHANGED <<_observer, _cleanup, observed, calls, cleanupCalls, lookups,
                   invoked, cancelled, subscriberResult, errorReceived>>

----------------------------------------------------------------------------
\* SubscriptionObserver.constructor, entered from Observable.observe

\* observe(observer): the constructor checks the observer, initialises the two
\* fields and calls the subscriber function
observe ==
    /\ observed = "no" /\ Top.kind = "main"
    /\ \E isObject \in BOOLEAN :
         IF ~isObject
         THEN /\ observed' = "rejected"
              /\ ret' = ThrowCompletion(TypeError,
                            Frame("constructor", "done", None, None))
              /\ UNCHANGED <<_observer, _cleanup, stack>>
         ELSE /\ observed' = "running"
              /\ _observer' = "observer"
              /\ _cleanup' = Undefined
              /\ stack' = stack \o <<Frame("constructor", "subscriber", None, None),
                                     Frame("subscriber", "run", None, None)>>
              /\ ret' = NoRet
    /\ UNCHANGED <<calls, cleanupCalls, lookups, invoked, cancelled,
                   subscriberResult, errorReceived>>

\* observe returns the cancel function, or throws, when the constructor ends
observeResult ==
    observed' = IF Len(stack') < Len(stack)
                THEN (IF ret'.type = "throw" THEN "threw" ELSE "returned")
                ELSE observed

\* a constructor that rethrows the subscriber's exception
constructorCatchRethrows(f, e) ==
    /\ stack' = Below \o <<[f EXCEPT !.pc = "catch", !.exc = e]>>
    /\ ret' = ThrowCompletion(e, NoFrame)
    /\ UNCHANGED <<_observer, _cleanup, cleanupCalls, lookups, invoked,
                   cancelled, errorReceived>>

\* a constructor that reports a TypeError of its own instead of the caught value
constructorCatchWrongValue(f, e) ==
    error(Below \o <<[f EXCEPT !.pc = "catch", !.exc = e]>>, TypeError)

\* catch (e) { this.error(e); return; }
constructorCatch(f, e) ==
    error(Below \o <<[f EXCEPT !.pc = "catch", !.exc = e]>>, e)

\* a constructor that initialises _observer only after the subscriber ran
constructorStoreReinit(f, cleanup) ==
    /\ _observer' = "observer"
    /\ _cleanup' = cleanup
    /\ stack' = Below \o <<[f EXCEPT !.pc = "check"]>>
    /\ ret' = NoRet
    /\ UNCHANGED <<cleanupCalls, lookups, invoked, cancelled, errorReceived>>

\* this._cleanup = cleanup;
constructorStore(f, cleanup) ==
    /\ _cleanup' = cleanup
    /\ stack' = Below \o <<[f EXCEPT !.pc = "check"]>>
    /\ ret' = NoRet
    /\ UNCHANGED <<_observer, cleanupCalls, lookups, invoked, cancelled,
                   errorReceived>>

\* a type check that lets every return value of the subscriber through
isCleanupTypeAny(v) == TRUE

\* cleanup != null && typeof cleanup !== "function" is false
isCleanupType(v) == v \in {Undefined, Function}

\* subscriber.call(undefined, this) has completed
constructorSubscriber ==
    /\ Top.kind = "constructor" /\ Top.pc = "subscriber"
    /\ subscriberResult' = [type |-> ret.type, val |-> ret.val]
    /\ IF ret.type = "throw"
       THEN constructorCatch(Top, ret.val)
       ELSE IF ~isCleanupType(ret.val)
       THEN constructorCatch(Top, TypeError)
       ELSE constructorStore(Top, ret.val)
    /\ observeResult
    /\ UNCHANGED calls

\* a constructor without the final closed check
constructorCheckSkipsCleanup ==
    /\ Top.kind = "constructor" /\ Top.pc = "check"
    /\ stack' = Below
    /\ ret' = NormalCompletion(Undefined, [Top EXCEPT !.pc = "done"])
    /\ observeResult
    /\ UNCHANGED <<_observer, _cleanup, calls, cleanupCalls, lookups, invoked,
                   cancelled, subscriberResult, errorReceived>>

\* if (subscriptionClosed(this)) cleanupSubscription(this);
constructorCheck ==
    /\ Top.kind = "constructor" /\ Top.pc = "check"
    /\ LET c == [Top EXCEPT !.pc = "cleanup"] IN
       IF subscriptionClosed
       THEN cleanupSubscription(Below, c, NormalCompletion(Undefined, c))
       ELSE /\ stack' = Below
            /\ ret' = NormalCompletion(Undefined, [Top EXCEPT !.pc = "done"])
            /\ UNCHANGED <<_cleanup, cleanupCalls>>
    /\ observeResult
    /\ UNCHANGED <<_observer, calls, lookups, invoked, cancelled,
                   subscriberResult, errorReceived>>

\* this.error(e) in the catch block has completed: return, or propagate
constructorCatchDone ==
    /\ Top.kind = "constructor" /\ Top.pc = "catch"
    /\ stack' = Below
    /\ ret' = IF ret.type = "throw" THEN ThrowCompletion(ret.val, Top)
              ELSE NormalCompletion(Undefined, Top)
    /\ observeResult
    /\ UNCHANGED <<_observer, _cleanup, calls, cleanupCalls, lookups, invoked,
                   cancelled, subscriberResult, errorReceived>>

\* the cleanup function called by the constructor has completed
constructorCleanup ==
    /\ Top.kind = "constructor" /\ Top.pc = "cleanup"
    /\ stack' = Below
    /\ ret' = IF ret.type = "throw" THEN ThrowCompletion(ret.val, Top)
              ELSE NormalCompletion(Undefined, Top)
    /\ observeResult
    /\ UNCHANGED <<_observer, _cleanup, calls, cleanupCalls, lookups, invoked,
                   cancelled, subscriberResult, errorReceived>>

----------------------------------------------------------------------------
\* User code: the subscriber function, the raw observer's getters and
\* handlers, the cleanup function, and the caller of observe ("main", which
\* holds the cancel function and any SubscriptionObserver the subscriber
\* leaked).  The frame on top of the stack is the code that is running.

CanCall ==
    /\ Top.kind \in UserKinds
    /\ observed \in {"running", "returned", "threw"}
    /\ calls < MaxCalls

\* the values each kind of user code is modelled to return
ReturnValues(kind) ==
    CASE kind = "cleanup" -> {Undefined}
      [] kind = "handler" -> {Undefined, "a"}
      [] OTHER -> {Undefined, Function, "a"}

UserCallNext ==
    /\ CanCall
    /\ \E v \in Values : next(stack, v)
    /\ calls' = calls + 1
    /\ UNCHANGED <<observed, subscriberResult>>

UserCallError ==
    /\ CanCall
    /\ \E v \in Values : error(stack, v)
    /\ calls' = calls + 1
    /\ UNCHANGED <<observed, subscriberResult>>

UserCallComplete ==
    /\ CanCall
    /\ \E v \in Values : complete(stack, v)
    /\ calls' = calls + 1
    /\ UNCHANGED <<observed, subscriberResult>>

UserCallCancel ==
    /\ CanCall
    /\ cancel(stack)
    /\ calls' = calls + 1
    /\ UNCHANGED <<observed, subscriberResult>>

UserReturn ==
    /\ Top.kind \in UserKinds \ {"main"}
    /\ \E v \in ReturnValues(Top.kind) :
         ret' = NormalCompletion(v, Top)
    /\ stack' = Below
    /\ UNCHANGED <<_observer, _cleanup, observed, calls, cleanupCalls, lookups,
                   invoked, cancelled, subscriberResult, errorReceived>>

UserThrow ==
    /\ Top.kind \in UserKinds \ {"main"}
    /\ \E e \in Values :
         ret' = ThrowCompletion(e, Top)
    /\ stack' = Below
    /\ UNCHANGED <<_observer, _cleanup, observed, calls, cleanupCalls, lookups,
                   invoked, cancelled, subscriberResult, errorReceived>>

----------------------------------------------------------------------------

OneSubscriptionInit ==
    /\ _observer = None
    /\ _cleanup = None
    /\ stack = <<Frame("main", "run", None, None)>>
    /\ ret = NoRet
    /\ observed = "no"
    /\ calls = 0
    /\ cleanupCalls = 0
    /\ lookups = [k \in Keys |-> 0]
    /\ invoked = [k \in Keys |-> 0]
    /\ cancelled = FALSE
    /\ subscriberResult = [type |-> None, val |-> None]
    /\ errorReceived = None

Init == OneSubscriptionInit /\ NoObservables

Next ==
    \/ observe /\ UNCHANGED obsVars
    \/ constructorSubscriber /\ UNCHANGED obsVars
    \/ constructorCheck /\ UNCHANGED obsVars
    \/ constructorCatchDone /\ UNCHANGED obsVars
    \/ constructorCleanup /\ UNCHANGED obsVars
    \/ UserCallNext /\ UNCHANGED obsVars
    \/ UserCallError /\ UNCHANGED obsVars
    \/ UserCallComplete /\ UNCHANGED obsVars
    \/ UserCallCancel /\ UNCHANGED obsVars
    \/ UserReturn /\ UNCHANGED obsVars
    \/ UserThrow /\ UNCHANGED obsVars
    \/ nextLookup /\ UNCHANGED obsVars
    \/ nextInvoke /\ UNCHANGED obsVars
    \/ nextCatchDone /\ UNCHANGED obsVars
    \/ errorLookup /\ UNCHANGED obsVars
    \/ errorInvoke /\ UNCHANGED obsVars
    \/ errorCleanup /\ UNCHANGED obsVars
    \/ errorCatchDone /\ UNCHANGED obsVars
    \/ completeLookup /\ UNCHANGED obsVars
    \/ completeInvoke /\ UNCHANGED obsVars
    \/ completeCleanup /\ UNCHANGED obsVars
    \/ completeCatchDone /\ UNCHANGED obsVars
    \/ cancelCleanup /\ UNCHANGED obsVars

Spec == Init /\ [][Next]_<<vars, obsVars>>

----------------------------------------------------------------------------
\* Properties of the subscription state machine

\* the subscriber function returned a cleanup function
CleanupReturned ==
    subscriberResult = [type |-> "normal", val |-> Function]

\* observe has finished and no call on the subscription is in progress
Quiescent ==
    /\ observed \in {"returned", "threw"}
    /\ Len(stack) = 1

\* the number of times the raw observer's error and complete methods ran
TerminalInvocations == invoked["error"] + invoked["complete"]

\* a frame running the lookup or the call of the raw observer's error or
\* complete method
TerminalUserFrame(f) ==
    /\ f.kind \in {"getter", "handler"}
    /\ f.key \in {"error", "complete"}

\* C1: the cleanup function returned by the subscriber is never invoked twice,
\* and once the subscription is closed and no call is in progress it has been
\* invoked exactly once, however many calls followed the closing one.
CleanupExactlyOnce ==
    /\ cleanupCalls <= 1
    /\ (Quiescent /\ subscriptionClosed /\ CleanupReturned) => cleanupCalls = 1

\* a further cancel/error/complete call has returned on a closed subscription
\* whose cleanup function ran once
CleanupExactlyOnceWitness ==
    /\ Quiescent /\ subscriptionClosed /\ CleanupReturned
    /\ cleanupCalls = 1
    /\ ret.of.kind \in {"cancel", "error", "complete"}
    /\ ret.of.pc = "closed"

NoInvocationAfterClose ==
    [][(cancelled \/ TerminalInvocations > 0) => invoked' = invoked]_vars

\* C4: a closed subscription stays closed.
ClosedIsPermanent ==
    [][subscriptionClosed => subscriptionClosed']_vars

\* the subscription was closed and calls were made on it afterwards
ClosedIsPermanentWitness ==
    /\ subscriptionClosed
    /\ Quiescent
    /\ ret.of.pc = "closed"
    /\ calls >= 2

\* C5: a cancel call on a closed subscription changes nothing and returns
\* undefined; a cancel call on an open subscription closes it and runs the
\* stored cleanup function; no cancel call reads or invokes anything of the
\* raw observer.
CancelIdempotent ==
    /\ [][UserCallCancel =>
            IF subscriptionClosed
            THEN /\ ret'.type = "normal" /\ ret'.val = Undefined
                 /\ UNCHANGED <<_observer, _cleanup, stack, cleanupCalls,
                                lookups, invoked, errorReceived>>
            ELSE /\ subscriptionClosed'
                 /\ _cleanup' = Undefined
                 /\ cleanupCalls' =
                        cleanupCalls + (IF _cleanup = Function THEN 1 ELSE 0)
                 /\ UNCHANGED <<lookups, invoked, errorReceived>>]_vars
    /\ [][Top.kind = "cancel" =>
            UNCHANGED <<_observer, _cleanup, cleanupCalls, lookups, invoked,
                        errorReceived>>]_vars

\* cancel was called again after a cancel that closed the subscription and
\* ran the cleanup function
CancelIdempotentWitness ==
    /\ Quiescent /\ cancelled /\ CleanupReturned
    /\ cleanupCalls = 1
    /\ ret.of.kind = "cancel" /\ ret.of.pc = "closed"

\* C6: error(v) on a closed subscription throws v and touches nothing; error(v)
\* on an open subscription whose raw observer has no error method closes the
\* subscription, runs the stored cleanup function once and throws v.
ErrorNeverDropped ==
    /\ [][\A v \in Values :
            (CanCall /\ subscriptionClosed /\ error(stack, v)) =>
                /\ ret'.type = "throw" /\ ret'.val = v
                /\ UNCHANGED <<_observer, _cleanup, stack, cleanupCalls,
                               lookups, invoked, errorReceived>>]_vars
    /\ []((ret.of.kind = "error" /\ ret.of.pc = "closed") =>
            (ret.type = "throw" /\ ret.val = ret.of.arg))
    /\ []((ret.of.kind = "error" /\ ret.of.m = Undefined) =>
            /\ ret.type = "throw" /\ ret.val = ret.of.arg
            /\ subscriptionClosed
            /\ _cleanup = Undefined
            /\ cleanupCalls <= 1
            /\ CleanupReturned => cleanupCalls = 1)

\* error has thrown its argument after finding no error method, the cleanup
\* function having run
ErrorNeverDroppedWitness ==
    /\ ret.of.kind = "error" /\ ret.of.m = Undefined
    /\ ret.type = "throw" /\ ret.val \in Values
    /\ CleanupReturned /\ cleanupCalls = 1

\* C7: next(v) and complete(v) on a closed subscription return undefined and
\* change nothing: no property of the raw observer is read, no method of it is
\* invoked and the cleanup function is not run.
ClosedNextCompleteNoOp ==
    [][\A v \in Values :
         (CanCall /\ subscriptionClosed /\ (next(stack, v) \/ complete(stack, v))) =>
             /\ ret'.type = "normal" /\ ret'.val = Undefined
             /\ UNCHANGED <<_observer, _cleanup, stack, cleanupCalls,
                            lookups, invoked, errorReceived>>]_vars

\* complete has returned on a subscription that was closed before
ClosedNextCompleteNoOpWitness ==
    /\ Quiescent /\ subscriptionClosed
    /\ ret.of.kind = "complete" /\ ret.of.pc = "closed"
    /\ ret.type = "normal"
    /\ TerminalInvocations = 1 /\ cleanupCalls = 1

SubscribeNeverRaises ==
    subscriberResult.type = "throw" => observed # "threw"

\* C10 as amended: an exception e of the subscriber function is passed to
\* error(e); observe throws exactly when that call throws, and with the same
\* value; when the call finds the subscription open and an error method that
\* returns normally, the method has received e and observe returns normally.
ThrowingSubscriberRoutedToError ==
    [][(Top.kind = "constructor" /\ Top.pc = "catch"
            /\ subscriberResult.type = "throw") =>
         /\ ret.of.kind = "error" /\ ret.of.arg = subscriberResult.val
         /\ ret'.type = ret.type
         /\ ret.type = "throw" => ret'.val = ret.val
         /\ ret.type = "normal" =>
                (errorReceived = subscriberResult.val /\ observed' = "returned")
         /\ (ret.of.pc # "closed" /\ ret.of.m = Function /\ ret.of.exc = None) =>
                ret.type = "normal"]_vars

\* observe has returned normally after the subscriber threw, the thrown value
\* having been delivered to the raw observer's error method
ThrowingSubscriberRoutedToErrorWitness ==
    /\ observed = "returned"
    /\ ret.of.kind = "constructor"
    /\ subscriberResult.type = "throw"
    /\ errorReceived = subscriberResult.val
    /\ invoked["error"] = 1

\* the constructor is about to finish after passing the value e, thrown by
\* the subscriber function, to this.error
AfterSetupError ==
    /\ Top.kind = "constructor" /\ Top.pc = "catch"
    /\ subscriberResult.type = "throw"

\* C11 as stated: after the subscriber function threw e, an error method
\* found on the still open subscription receives e, the subscription is
\* closed and observe returns; without an error method observe throws e.
ThrowLikeErrorCall ==
    [][AfterSetupError =>
         /\ (ret.of.pc # "closed" /\ ret.of.m = Function) =>
                /\ errorReceived = subscriberResult.val
                /\ subscriptionClosed
                /\ ret'.type = "normal" /\ observed' = "returned"
         /\ ret.of.m = Undefined =>
                (ret'.type = "throw" /\ ret'.val = subscriberResult.val)]_vars

\* C11 as amended: as stated, except that observe returns only when the error
\* method returns normally; when the error method throws, observe throws that
\* exception.
ThrowLikeErrorCallHandlerReturns ==
    [][AfterSetupError =>
         /\ ret.of.kind = "error" /\ ret.of.arg = subscriberResult.val
         /\ (ret.of.pc # "closed" /\ ret.of.m = Function) =>
                /\ errorReceived = subscriberResult.val
                /\ subscriptionClosed
                /\ ret.of.exc = None =>
                       (ret'.type = "normal" /\ observed' = "returned")
                /\ ret.of.exc # None =>
                       (ret'.type = "throw" /\ ret'.val = ret.of.exc
                            /\ observed' = "threw")
         /\ ret.of.m = Undefined =>
                (ret'.type = "throw" /\ ret'.val = subscriberResult.val
                     /\ observed' = "threw")]_vars

\* observe has thrown the exception of the error method that received the
\* value thrown by the subscriber function
ThrowLikeErrorCallHandlerReturnsWitness ==
    /\ observed = "threw"
    /\ ret.of.kind = "constructor"
    /\ subscriberResult.type = "throw"
    /\ errorReceived = subscriberResult.val
    /\ ret.val \in Values /\ ret.val # subscriberResult.val

\* the subscriber function returned a value that is neither undefined, null
\* nor a function
NonCallableReturned ==
    /\ subscriberResult.type = "normal"
    /\ subscriberResult.val \notin {Undefined, Function, None}

\* C12 as stated: a return value of the subscriber function that is neither
\* absent nor callable makes observe throw.
NonCallableReturnThrows ==
    (NonCallableReturned /\ observed \in {"returned", "threw"}) =>
        observed = "threw"

\* C12 as amended: such a return value is turned into a TypeError that is
\* passed to this.error, so observe throws it when the raw observer has no
\* error method or the subscription is already closed, and otherwise the
\* error method receives it; no cleanup is stored or invoked.  After a return
\* of undefined, null or a function observe throws only when the constructor
\* ran the returned cleanup function and that function threw.
NonCallableReturnRoutedToError ==
    /\ [](NonCallableReturned => (_cleanup = Undefined /\ cleanupCalls = 0))
    /\ [][(Top.kind = "constructor" /\ Top.pc = "catch" /\ NonCallableReturned) =>
            /\ ret.of.kind = "error" /\ ret.of.arg = TypeError
            /\ ret'.type = ret.type
            /\ (ret.of.pc = "closed" \/ ret.of.m = Undefined) =>
                   (ret'.type = "throw" /\ ret'.val = TypeError)
            /\ (ret.of.pc # "closed" /\ ret.of.m = Function) =>
                   errorReceived = TypeError]_vars
    /\ []((ret.of.kind = "constructor" /\ observed = "threw"
              /\ subscriberResult.type = "normal" /\ ~NonCallableReturned) =>
            /\ ret.of.pc = "cleanup"
            /\ subscriberResult.val = Function
            /\ cleanupCalls = 1)

\* observe has returned normally although the subscriber function returned a
\* value that is not callable: the error method received the TypeError
NonCallableReturnRoutedToErrorWitness ==
    /\ observed = "returned"
    /\ ret.of.kind = "constructor"
    /\ NonCallableReturned
    /\ errorReceived = TypeError
    /\ cleanupCalls = 0

\* C13: when the subscriber function returns a cleanup function on a
\* subscription that is already closed, the constructor invokes it, once,
\* before observe returns, and nothing invokes it again afterwards.
CleanupOfClosedSetup ==
    /\ [][(Top.kind = "constructor" /\ Top.pc = "check" /\ subscriptionClosed
                /\ CleanupReturned) =>
            /\ cleanupCalls = 0 /\ cleanupCalls' = 1
            /\ _cleanup' = Undefined
            /\ stack'[Len(stack')].kind = "cleanup"]_vars
    /\ []((ret.of.kind = "constructor" /\ CleanupReturned /\ subscriptionClosed) =>
            (ret.of.pc = "cleanup" /\ cleanupCalls = 1))
    /\ [][(observed \in {"returned", "threw"} /\ cleanupCalls = 1) =>
            cleanupCalls' = 1]_vars

\* observe has returned after the constructor ran the cleanup function of a
\* subscription closed during setup
CleanupOfClosedSetupWitness ==
    /\ observed = "returned"
    /\ ret.of.kind = "constructor" /\ ret.of.pc = "cleanup"
    /\ CleanupReturned /\ subscriptionClosed
    /\ cleanupCalls = 1

\* a call of error or complete found the subscription open
TerminalCallTookEffect == lookups["error"] + lookups["complete"] > 0

\* observe has just finished
SetupJustFinished ==
    /\ ret.of.kind = "constructor"
    /\ observed \in {"returned", "threw"}

\* C14 as stated: when observe finishes, a subscription on which error or
\* complete took effect, or whose subscriber function threw, is closed, and a
\* subscription whose subscriber function only made next calls and returned
\* normally is open.
ClosedIffTerminalDuringSetup ==
    (SetupJustFinished /\ observed = "returned") =>
        /\ (TerminalCallTookEffect \/ subscriberResult.type = "throw") =>
               subscriptionClosed
        /\ (calls = lookups["next"] /\ subscriberResult.type = "normal"
                /\ ~NonCallableReturned) => ~subscriptionClosed

\* C14 as amended: when observe finishes, the subscription is closed iff
\* during setup a call of error or complete found it open (made by user code,
\* or by the constructor after the subscriber function threw or returned a
\* value that is not callable) or cancel closed it (called by user code, or by
\* next after the lookup or the handler threw); a subscriber function that
\* only made next calls, none of which threw, leaves it open.
ClosedIffClosedDuringSetup ==
    SetupJustFinished =>
        /\ subscriptionClosed <=> (TerminalCallTookEffect \/ cancelled)
        /\ (subscriberResult.type = "throw" \/ NonCallableReturned) =>
               subscriptionClosed
        /\ (calls = lookups["next"] /\ subscriberResult.type = "normal"
                /\ ~NonCallableReturned /\ ~cancelled) => ~subscriptionClosed

\* observe has returned with the subscription closed although the subscriber
\* function only called next: the next handler threw
ClosedIffClosedDuringSetupWitness ==
    /\ SetupJustFinished /\ observed = "returned"
    /\ calls > 0 /\ calls = lookups["next"]
    /\ subscriberResult.type = "normal" /\ ~NonCallableReturned
    /\ invoked["next"] > 0
    /\ cancelled /\ subscriptionClosed

\* getMethod(observer, "next") has just returned a normal completion with
\* value v to next
NextLookedUp(v) ==
    /\ Top.kind = "next" /\ Top.pc = "lookup"
    /\ ret.type = "normal" /\ ret.val = v

\* C15: a next call reads the raw observer's next property once when the
\* subscription is open and not at all when it is closed, and nothing else
\* reads it; when the value read is undefined or null, next returns undefined
\* without invoking anything, closing the subscription or running the cleanup;
\* when it is another value that is not a function, next invokes nothing and
\* throws a TypeError.
NextLookupOnce ==
    /\ [][lookups'["next"] = lookups["next"] +
            (IF UserCallNext /\ ~subscriptionClosed THEN 1 ELSE 0)]_vars
    /\ [][NextLookedUp(Undefined) =>
            /\ stack' = Below
            /\ ret'.type = "normal" /\ ret'.val = Undefined
            /\ UNCHANGED <<_observer, _cleanup, cleanupCalls, lookups,
                           invoked>>]_vars
    /\ [][(\E v \in Values : NextLookedUp(v)) =>
            /\ Len(stack') >= Len(stack)
            /\ stack'[Len(stack)].exc = TypeError
            /\ UNCHANGED invoked]_vars
    /\ []((ret.of.kind = "next" /\ ret.of.pc = "catch") =>
            (ret.type = "throw" /\ ret.val = ret.of.exc))

\* next has thrown a TypeError after reading a next property that is not a
\* function, having read the property once
NextLookupOnceWitness ==
    /\ ret.of.kind = "next" /\ ret.of.exc = TypeError
    /\ ret.type = "throw" /\ ret.val = TypeError
    /\ lookups["next"] = 1 /\ invoked["next"] = 0

CleanupOnlyWhenClosed ==
    /\ [](cleanupCalls > 0 => subscriptionClosed)
    /\ [](\A i \in DOMAIN stack :
            stack[i].kind = "cleanup" => subscriptionClosed)
    /\ [][cleanupCalls' # cleanupCalls =>
            /\ _observer' = Undefined
            /\ _cleanup # Undefined /\ _cleanup' = Undefined]_vars
    /\ []((Quiescent /\ subscriptionClosed) =>
            /\ _cleanup = Undefined
            /\ CleanupReturned => cleanupCalls > 0)

\* complete has closed the subscription after observe returned, and its call
\* of the cleanup function has returned
CleanupOnlyWhenClosedWitness ==
    /\ Quiescent /\ observed = "returned"
    /\ subscriptionClosed
    /\ CleanupReturned
    /\ _cleanup = Undefined
    /\ cleanupCalls = 1
    /\ ret.of.kind = "complete" /\ ret.of.pc = "cleanup"
    /\ ~cancelled

\* a call of cancel has just returned to its caller, on a subscription whose
\* subscriber function returned a cleanup function to an observe that has
\* returned
CancelReturned ==
    /\ ret.of.kind = "cancel" /\ ret.type = "normal"
    /\ observed = "returned"
    /\ CleanupReturned

CleanupThrowPropagates ==
    /\ [][(/\ Top.kind \in {"error", "complete"} /\ Top.pc = "cleanup"
           /\ Top.m = Function
           /\ ret.type = "throw") =>
            /\ stack' = Below
            /\ ret'.type = "throw" /\ ret'.val = ret.val
            /\ ret'.of.kind = Top.kind
            /\ subscriptionClosed'
            /\ _cleanup' = Undefined
            /\ cleanupCalls' = 1]_vars
    /\ []((/\ ret.of.kind \in {"error", "complete"} /\ ret.of.pc = "cleanup"
           /\ ret.of.m = Function
           /\ ret.type = "throw") =>
            /\ ret.of.exc = None
            /\ subscriptionClosed
            /\ _cleanup = Undefined
            /\ cleanupCalls = 1)
    /\ [][cleanupCalls >= 1 => cleanupCalls' = cleanupCalls]_vars

\* the raw observer's error method returned "a", the cleanup function threw
\* "b", and error has thrown "b" to its caller
CleanupThrowPropagatesWitness ==
    /\ ret.of.kind = "error" /\ ret.of.pc = "cleanup"
    /\ ret.of.m = Function
    /\ ret.of.res = "a"
    /\ ret.type = "throw" /\ ret.val = "b"
    /\ invoked["error"] = 1
    /\ subscriptionClosed
    /\ cleanupCalls = 1

----------------------------------------------------------------------------
(***************************************************************************)
(* The Observable layer: Observable objects made by the constructor, of,   *)
(* from, map and filter, any number of subscriptions, and the job queue of *)
(* enqueueJob.  Every call is a frame of the call stack and every action   *)
(* is one step of the frame on top.  Raw observers passed by user code are *)
(* objects with data properties; the handlers, the subscriber functions,   *)
(* the cleanup functions and the map/filter callbacks are user code, which *)
(* may call into the library re-entrantly, return, or throw.               *)
(***************************************************************************)

\* Bounds of the second specification.
MaxObservables == 2
MaxSubscriptions == 2
MaxItems == 2
MaxUserCalls == 3

Thrown == "thrown"                    \* the value user code throws
IterationError == "iteration error"   \* the value a failing iteration throws
NotObject == "not an object"          \* an observer argument that is no object
Handle == "cancel function"           \* the function returned by observe

\* The raw observers user code passes to observe, by the value of each
\* handler property.
RawObservers == {"full", "none", "broken"}

\* obj[key] of a raw observer; "wrapper" is the observer object literal that
\* map and filter pass to the source, "each" the one forEach passes to observe
Property(raw, key) ==
    CASE raw \in {"full", "wrapper", "each"} -> Function
      [] raw = "none" -> Undefined
      [] OTHER -> "a"

\* getMethod(obj, key) for a raw observer: a completion record
getMethodOf(raw, key) ==
    IF Property(raw, key) = Undefined THEN [type |-> "normal", val |-> Undefined]
    ELSE IF Property(raw, key) # Function THEN [type |-> "throw", val |-> TypeError]
    ELSE [type |-> "normal", val |-> Function]

ObsUserKinds == {"main", "subscriber", "handler", "cleanup", "callback"}

NoObsFrame == [kind |-> None, pc |-> None, sub |-> 0, key |-> None,
               arg |-> None, obj |-> None, exc |-> None, res |-> None, i |-> 0]

ObsFrame(kind, pc, sub, key, arg) ==
    [NoObsFrame EXCEPT !.kind = kind, !.pc = pc, !.sub = sub, !.key = key,
                       !.arg = arg]

NoCompletion == [type |-> None, val |-> None, of |-> NoObsFrame]

Cur == IF callStack = <<>> THEN NoObsFrame ELSE callStack[Len(callStack)]
Rest == SubSeq(callStack, 1, Len(callStack) - 1)

\* the frame on top calls g and waits for it as frame f
Invoke(f, g) ==
    /\ callStack' = Rest \o <<f, g>>
    /\ completion' = NoCompletion

\* the frame on top goes on as frame f, having received completion c
Resume(f, c) ==
    /\ callStack' = Rest \o <<f>>
    /\ completion' = c

\* the frame on top returns v / throws e
ReturnValue(v) ==
    /\ callStack' = Rest
    /\ completion' = [type |-> "normal", val |-> v, of |-> Cur]

ThrowValue(e) ==
    /\ callStack' = Rest
    /\ completion' = [type |-> "throw", val |-> e, of |-> Cur]

\* the frame on top finishes with the type and value of completion c
Finish(c) ==
    /\ callStack' = Rest
    /\ completion' = [type |-> c.type, val |-> c.val, of |-> Cur]

\* the frame on top is the library frame of this kind at this pc
At(kind, pc) == Cur.kind = kind /\ Cur.pc = pc

\* the call made by the frame on top has completed
Completed == completion.type # None

kindOf(s) == observables[subscriptions[s].obs].kind

\* get closed() / subscriptionClosed(observer)
closed(s) == subscriptions[s]._observer = Undefined

\* the subscription of the observer that the wrapper of s forwards to
downstream(s) == s - 1

\* the subscription whose cancel function is the stored cleanup of s
upstream(s) == s + 1

\* a store that clears the reference of every subscription of the Observable
closeAllOf(s) ==
    [t \in DOMAIN subscriptions |->
        IF subscriptions[t].obs = subscriptions[s].obs
        THEN [subscriptions[t] EXCEPT !._observer = Undefined]
        ELSE subscriptions[t]]

\* this._observer = undefined
closeOf(s) == [subscriptions EXCEPT ![s]._observer = Undefined]

\* m.call(observer, value) by the frame on top, which waits as frame f: a
\* handler of a user object is user code, a handler of the object literal of
\* map/filter or of forEach is library code
invokeHandler(f, s, raw, key, v) ==
    IF raw = "wrapper"
    THEN /\ Invoke(f, ObsFrame("wrapper", "start", s, key, v))
         /\ UNCHANGED delivered
    ELSE /\ Invoke(f, ObsFrame(IF raw = "each" THEN "each" ELSE "handler",
                               IF raw = "each" THEN "start" ELSE "run",
                               s, key, v))
         /\ delivered' = [delivered EXCEPT ![s] = Append(@, <<key, v>>)]

\* cleanupSubscription(observer) by the frame on top, which goes on as frame
\* f: an empty slot returns at once; otherwise the slot is emptied and the
\* cleanup runs, user code or the cancel function of the upstream
\* subscription
cleanupSubscriptionOf(f, s, subs) ==
    IF subs[s]._cleanup = Undefined
    THEN /\ Resume(f, [type |-> "normal", val |-> Undefined,
                        of |-> ObsFrame("cleanupSubscription", "empty", s, None, None)])
         /\ subscriptions' = subs
         /\ UNCHANGED cleanupRuns
    ELSE /\ subscriptions' = [subs EXCEPT ![s]._cleanup = Undefined]
         /\ cleanupRuns' = [cleanupRuns EXCEPT ![s] = @ + 1]
         /\ IF subs[s]._cleanup = Handle
            THEN Invoke(f, ObsFrame("cancel", "start", upstream(s), None, None))
            ELSE Invoke(f, ObsFrame("cleanup", "run", s, None, None))

\* variables no step of a SubscriptionObserver method changes
MethodFrame == UNCHANGED <<vars, callbackLog, promises, observables, jobs,
                           producerCalls, observeCalls, userCalls>>

\* variables that neither a SubscriptionObserver method nor a Promise changes
LiteralFrame == UNCHANGED <<vars, observables, subscriptions, jobs, delivered,
                            producerCalls, observeCalls, cleanupRuns,
                            userCalls>>

----------------------------------------------------------------------------
\* SubscriptionObserver methods, one subscription among several

\* a cancel that runs the cleanup but keeps the reference to the observer
cancelEnterKeepsObserver ==
    /\ At("cancel", "start")
    /\ IF closed(Cur.sub)
       THEN /\ ReturnValue(Undefined)
            /\ UNCHANGED <<subscriptions, cleanupRuns>>
       ELSE cleanupSubscriptionOf([Cur EXCEPT !.pc = "cleanup"], Cur.sub,
                                  subscriptions)
    /\ UNCHANGED delivered
    /\ MethodFrame

cancelEnter ==
    /\ At("cancel", "start")
    /\ IF closed(Cur.sub)
       THEN /\ ReturnValue(Undefined)
            /\ UNCHANGED <<subscriptions, cleanupRuns>>
       ELSE cleanupSubscriptionOf([Cur EXCEPT !.pc = "cleanup"], Cur.sub,
                                  closeOf(Cur.sub))
    /\ UNCHANGED delivered
    /\ MethodFrame

\* cleanupSubscription has completed in cancel (and in the function that
\* observe returns, which calls cancel and returns nothing)
cancelCleaned ==
    /\ At("cancel", "cleanup") /\ Completed
    /\ IF completion.type = "normal"
       THEN ReturnValue(Undefined)
       ELSE ThrowValue(completion.val)
    /\ UNCHANGED <<subscriptions, delivered, cleanupRuns>>
    /\ MethodFrame

\* catch (e) { try { this.cancel() } finally { throw e } } of next
nextCatchOf(f, e) ==
    Invoke([f EXCEPT !.pc = "catch", !.exc = e],
           ObsFrame("cancel", "start", f.sub, None, None))

nextEnter ==
    /\ At("next", "start")
    /\ LET s == Cur.sub
           raw == subscriptions[s]._observer
           m == getMethodOf(raw, "next")
       IN  IF closed(s)
           THEN ReturnValue(Undefined) /\ UNCHANGED delivered
           ELSE IF m.type = "throw"
           THEN nextCatchOf(Cur, m.val) /\ UNCHANGED delivered
           ELSE IF m.val = Undefined
           THEN ReturnValue(Undefined) /\ UNCHANGED delivered
           ELSE invokeHandler([Cur EXCEPT !.pc = "call"], s, raw, "next", Cur.arg)
    /\ UNCHANGED <<subscriptions, cleanupRuns>>
    /\ MethodFrame

\* m.call(observer, value) has completed in next
nextReturned ==
    /\ At("next", "call") /\ Completed
    /\ IF completion.type = "normal"
       THEN ReturnValue(completion.val)
       ELSE nextCatchOf(Cur, completion.val)
    /\ UNCHANGED <<subscriptions, delivered, cleanupRuns>>
    /\ MethodFrame

\* this.cancel() has completed in the catch block of next
nextCaught ==
    /\ At("next", "catch") /\ Completed
    /\ ThrowValue(Cur.exc)
    /\ UNCHANGED <<subscriptions, delivered, cleanupRuns>>
    /\ MethodFrame

errorEnter ==
    /\ At("error", "start")
    /\ LET s == Cur.sub
           raw == subscriptions[s]._observer
           m == getMethodOf(raw, "error")
           subs == closeOf(s)
       IN  IF closed(s)
           THEN /\ ThrowValue(Cur.arg)
                /\ UNCHANGED <<subscriptions, delivered, cleanupRuns>>
           ELSE IF m.type = "throw"
           THEN /\ cleanupSubscriptionOf(
                       [Cur EXCEPT !.pc = "catch", !.exc = m.val], s, subs)
                /\ UNCHANGED delivered
           ELSE IF m.val = Undefined
           THEN /\ cleanupSubscriptionOf(
                       [Cur EXCEPT !.pc = "catch", !.exc = Cur.arg], s, subs)
                /\ UNCHANGED delivered
           ELSE /\ subscriptions' = subs
                /\ invokeHandler([Cur EXCEPT !.pc = "call"], s, raw, "error",
                                 Cur.arg)
                /\ UNCHANGED cleanupRuns
    /\ MethodFrame

\* m.call(observer, value) has completed in error or complete
terminalReturned(kind) ==
    /\ At(kind, "call") /\ Completed
    /\ IF completion.type = "normal"
       THEN cleanupSubscriptionOf(
                [Cur EXCEPT !.pc = "cleanup", !.res = completion.val],
                Cur.sub, subscriptions)
       ELSE cleanupSubscriptionOf(
                [Cur EXCEPT !.pc = "catch", !.exc = completion.val],
                Cur.sub, subscriptions)
    /\ UNCHANGED delivered
    /\ MethodFrame

\* cleanupSubscription(this); return value;
terminalCleaned(kind) ==
    /\ At(kind, "cleanup") /\ Completed
    /\ IF completion.type = "normal"
       THEN ReturnValue(Cur.res)
       ELSE ThrowValue(completion.val)
    /\ UNCHANGED <<subscriptions, delivered, cleanupRuns>>
    /\ MethodFrame

\* try { cleanupSubscription(this) } finally { throw e }
terminalCaught(kind) ==
    /\ At(kind, "catch") /\ Completed
    /\ ThrowValue(Cur.exc)
    /\ UNCHANGED <<subscriptions, delivered, cleanupRuns>>
    /\ MethodFrame

completeEnter ==
    /\ At("complete", "start")
    /\ LET s == Cur.sub
           raw == subscriptions[s]._observer
           m == getMethodOf(raw, "complete")
           subs == closeOf(s)
       IN  IF closed(s)
           THEN /\ ReturnValue(Undefined)
                /\ UNCHANGED <<subscriptions, delivered, cleanupRuns>>
           ELSE IF m.type = "throw"
           THEN /\ cleanupSubscriptionOf(
                       [Cur EXCEPT !.pc = "catch", !.exc = m.val], s, subs)
                /\ UNCHANGED delivered
           ELSE IF m.val = Undefined
           THEN /\ cleanupSubscriptionOf(
                       [Cur EXCEPT !.pc = "cleanup", !.res = Undefined], s, subs)
                /\ UNCHANGED delivered
           ELSE /\ subscriptions' = subs
                /\ invokeHandler([Cur EXCEPT !.pc = "call"], s, raw,
                                 "complete", Cur.arg)
                /\ UNCHANGED cleanupRuns
    /\ MethodFrame

----------------------------------------------------------------------------
\* Observable: construction, observe, the SubscriptionObserver constructor

Observable(kind, n, src) == [kind |-> kind, n |-> n, src |-> src]

\* the number of SubscriptionObservers one observe call on o creates
RECURSIVE SubscriptionsNeeded(_)
SubscriptionsNeeded(o) ==
    IF observables[o].kind \in {"map", "filter"}
    THEN 1 + SubscriptionsNeeded(observables[o].src)
    ELSE 1

isFunction(v) == v \in {Function, Handle}

\* o.observe(raw) called by the frame on top, which waits as frame f
observeOf(f, o, raw) ==
    /\ observeCalls' = [observeCalls EXCEPT ![o] = @ + 1]
    /\ IF raw = NotObject
       THEN /\ Resume(f, [type |-> "throw", val |-> TypeError,
                          of |-> ObsFrame("constructor", "rejected", 0, None, None)])
            /\ UNCHANGED <<subscriptions, delivered, cleanupRuns>>
       ELSE /\ subscriptions' = Append(subscriptions,
                   [obs |-> o, raw |-> raw, _observer |-> raw,
                    _cleanup |-> Undefined, stored |-> Undefined])
            /\ delivered' = Append(delivered, <<>>)
            /\ cleanupRuns' = Append(cleanupRuns, 0)
            /\ Invoke(f, ObsFrame("constructor", "start",
                                  Len(subscriptions) + 1, None, None))

\* subscriber.call(undefined, this): the function given to the Observable
\* constructor is user code; the one of of/from enqueues its job and returns
\* nothing; the one of map/filter returns this.observe({...}) of the source
constructorEnter ==
    /\ At("constructor", "start")
    /\ LET s == Cur.sub
           o == subscriptions[s].obs
           f == [Cur EXCEPT !.pc = "subscriber"]
       IN  /\ producerCalls' = [producerCalls EXCEPT ![o] = @ + 1]
           /\ CASE observables[o].kind = "user" ->
                     /\ Invoke(f, ObsFrame("subscriber", "run", s, None, None))
                     /\ UNCHANGED <<subscriptions, jobs, delivered, observeCalls,
                                    cleanupRuns>>
                [] observables[o].kind \in {"of", "from"} ->
                     /\ jobs' = Append(jobs, s)
                     /\ Resume(f, [type |-> "normal", val |-> Undefined,
                                    of |-> ObsFrame("subscriber", "job", s, None, None)])
                     /\ UNCHANGED <<subscriptions, delivered, observeCalls,
                                    cleanupRuns>>
                [] OTHER ->
                     /\ observeOf(f, observables[o].src, "wrapper")
                     /\ UNCHANGED jobs
    /\ UNCHANGED <<vars, callbackLog, promises, observables, userCalls>>

\* a constructor that does not store the result of the subscriber function
constructorReturnedDropsCleanup ==
    /\ At("constructor", "subscriber") /\ Completed
    /\ LET s == Cur.sub
           v == completion.val
           subs == subscriptions
       IN  IF completion.type = "throw"
           THEN /\ Invoke([Cur EXCEPT !.pc = "catch"],
                          ObsFrame("error", "start", s, None, v))
                /\ UNCHANGED <<subscriptions, cleanupRuns>>
           ELSE IF ~(v = Undefined \/ isFunction(v))
           THEN /\ Invoke([Cur EXCEPT !.pc = "catch"],
                          ObsFrame("error", "start", s, None, TypeError))
                /\ UNCHANGED <<subscriptions, cleanupRuns>>
           ELSE IF closed(s)
           THEN cleanupSubscriptionOf([Cur EXCEPT !.pc = "cleanup"], s, subs)
           ELSE /\ subscriptions' = subs
                /\ ReturnValue(Handle)
                /\ UNCHANGED cleanupRuns
    /\ UNCHANGED delivered
    /\ MethodFrame

\* the subscriber function has completed; its result is stored in _cleanup
\* (stored keeps it when cleanupSubscription empties the slot)
constructorReturned ==
    /\ At("constructor", "subscriber") /\ Completed
    /\ LET s == Cur.sub
           v == completion.val
           subs == [subscriptions EXCEPT ![s]._cleanup = v, ![s].stored = v]
       IN  IF completion.type = "throw"
           THEN /\ Invoke([Cur EXCEPT !.pc = "catch"],
                          ObsFrame("error", "start", s, None, v))
                /\ UNCHANGED <<subscriptions, cleanupRuns>>
           ELSE IF ~(v = Undefined \/ isFunction(v))
           THEN /\ Invoke([Cur EXCEPT !.pc = "catch"],
                          ObsFrame("error", "start", s, None, TypeError))
                /\ UNCHANGED <<subscriptions, cleanupRuns>>
           ELSE IF closed(s)
           THEN cleanupSubscriptionOf([Cur EXCEPT !.pc = "cleanup"], s, subs)
           ELSE /\ subscriptions' = subs
                /\ ReturnValue(Handle)
                /\ UNCHANGED cleanupRuns
    /\ UNCHANGED delivered
    /\ MethodFrame

\* this.error(e); return;  and then observe returns the cancel function
constructorCaught ==
    /\ At("constructor", "catch") /\ Completed
    /\ IF completion.type = "normal"
       THEN ReturnValue(Handle)
       ELSE ThrowValue(completion.val)
    /\ UNCHANGED <<subscriptions, delivered, cleanupRuns>>
    /\ MethodFrame

\* cleanupSubscription(this) of the constructor has completed
constructorCleaned ==
    /\ At("constructor", "cleanup") /\ Completed
    /\ IF completion.type = "normal"
       THEN ReturnValue(Handle)
       ELSE ThrowValue(completion.val)
    /\ UNCHANGED <<subscriptions, delivered, cleanupRuns>>
    /\ MethodFrame

----------------------------------------------------------------------------
\* The observer object literal of map and filter

\* a method of the literal is called: next calls fn, error and complete
\* forward to the downstream SubscriptionObserver
wrapperEnter ==
    /\ At("wrapper", "start")
    /\ IF Cur.key = "next"
       THEN Invoke([Cur EXCEPT !.pc = "fn"],
                   ObsFrame("callback", "run", Cur.sub, None, Cur.arg))
       ELSE Invoke([Cur EXCEPT !.pc = "forward"],
                   ObsFrame(Cur.key, "start", downstream(Cur.sub), None, Cur.arg))
    /\ UNCHANGED <<subscriptions, delivered, cleanupRuns>>
    /\ MethodFrame

\* the values that are false in a condition, among the values of the model
Falsy == {Undefined, "false"}

\* a literal of filter whose next passes on the values fn rejects
wrapperCallbackPassesRejected ==
    /\ At("wrapper", "fn") /\ Completed
    /\ LET d == downstream(Cur.sub)
           f == [Cur EXCEPT !.pc = "forward"]
       IN  IF completion.type = "throw"
           THEN Invoke(f, ObsFrame("error", "start", d, None, completion.val))
           ELSE IF kindOf(d) = "map"
           THEN Invoke(f, ObsFrame("next", "start", d, None, completion.val))
           ELSE Invoke(f, ObsFrame("next", "start", d, None, Cur.arg))
    /\ callbackLog' = Append(callbackLog,
           [sub |-> Cur.sub, arg |-> Cur.arg, type |-> completion.type,
            val |-> completion.val, open |-> ~closed(downstream(Cur.sub))])
    /\ UNCHANGED promises
    /\ LiteralFrame

\* a literal whose next drops the exception of fn
wrapperCallbackDropsError ==
    /\ At("wrapper", "fn") /\ Completed
    /\ LET d == downstream(Cur.sub)
           f == [Cur EXCEPT !.pc = "forward"]
       IN  IF completion.type = "throw"
           THEN ReturnValue(Undefined)
           ELSE IF kindOf(d) = "map"
           THEN Invoke(f, ObsFrame("next", "start", d, None, completion.val))
           ELSE IF completion.val \in Falsy
           THEN ReturnValue(Undefined)
           ELSE Invoke(f, ObsFrame("next", "start", d, None, Cur.arg))
    /\ callbackLog' = Append(callbackLog,
           [sub |-> Cur.sub, arg |-> Cur.arg, type |-> completion.type,
            val |-> completion.val, open |-> ~closed(downstream(Cur.sub))])
    /\ UNCHANGED promises
    /\ LiteralFrame

\* fn(value) has completed; the call is logged with its completion
wrapperCallback ==
    /\ At("wrapper", "fn") /\ Completed
    /\ LET d == downstream(Cur.sub)
           f == [Cur EXCEPT !.pc = "forward"]
       IN  IF completion.type = "throw"
           THEN Invoke(f, ObsFrame("error", "start", d, None, completion.val))
           ELSE IF kindOf(d) = "map"
           THEN Invoke(f, ObsFrame("next", "start", d, None, completion.val))
           ELSE IF completion.val \in Falsy
           THEN ReturnValue(Undefined)
           ELSE Invoke(f, ObsFrame("next", "start", d, None, Cur.arg))
    /\ callbackLog' = Append(callbackLog,
           [sub |-> Cur.sub, arg |-> Cur.arg, type |-> completion.type,
            val |-> completion.val, open |-> ~closed(downstream(Cur.sub))])
    /\ UNCHANGED promises
    /\ LiteralFrame

\* return observer.next(value) / observer.error(e) / observer.complete(value)
wrapperForwarded ==
    /\ At("wrapper", "forward") /\ Completed
    /\ Finish(completion)
    /\ UNCHANGED <<subscriptions, delivered, cleanupRuns>>
    /\ MethodFrame

----------------------------------------------------------------------------
\* forEach: the Promise it returns and the observer object literal it passes
\* to observe

\* the Promise that forEach returned for subscription s
PromiseOf(s) == CHOOSE p \in 1..Len(promises) : promises[p].sub = s

\* resolve(v) / reject(v) of Promise p: the first call settles it
Settle(p, state, v) ==
    IF promises[p].state = "pending"
    THEN [promises EXCEPT ![p].state = state, ![p].val = v]
    ELSE promises

\* a forEach that checks fn before it creates the Promise
forEachEnterThrows ==
    /\ At("forEach", "start")
    /\ LET s == Len(subscriptions) + 1
       IN  IF ~isFunction(Cur.arg)
           THEN /\ UNCHANGED promises
                /\ ThrowValue(TypeError)
                /\ UNCHANGED <<subscriptions, delivered, cleanupRuns,
                               observeCalls>>
           ELSE /\ promises' = Append(promises,
                      [state |-> "pending", val |-> None, sub |-> s])
                /\ observeOf([Cur EXCEPT !.pc = "observe", !.sub = s],
                             Cur.obj, "each")
    /\ UNCHANGED <<vars, callbackLog, observables, jobs, producerCalls,
                   userCalls>>

\* new Promise(executor) runs the executor: a fn that is no function makes it
\* throw, which rejects the Promise; otherwise it calls this.observe({...})
forEachEnter ==
    /\ At("forEach", "start")
    /\ LET s == Len(subscriptions) + 1
       IN  IF ~isFunction(Cur.arg)
           THEN /\ promises' = Append(promises,
                      [state |-> "rejected", val |-> TypeError, sub |-> 0])
                /\ ReturnValue("promise")
                /\ UNCHANGED <<subscriptions, delivered, cleanupRuns,
                               observeCalls>>
           ELSE /\ promises' = Append(promises,
                      [state |-> "pending", val |-> None, sub |-> s])
                /\ observeOf([Cur EXCEPT !.pc = "observe", !.sub = s],
                             Cur.obj, "each")
    /\ UNCHANGED <<vars, callbackLog, observables, jobs, producerCalls,
                   userCalls>>

\* this.observe({...}) has completed: an exception of it leaves the executor
\* and rejects the Promise; forEach returns the Promise
forEachObserved ==
    /\ At("forEach", "observe") /\ Completed
    /\ promises' = IF completion.type = "throw"
                   THEN Settle(PromiseOf(Cur.sub), "rejected", completion.val)
                   ELSE promises
    /\ ReturnValue("promise")
    /\ UNCHANGED callbackLog
    /\ LiteralFrame

\* a literal of forEach whose next is resolve
eachEnterResolvesOnNext ==
    /\ At("each", "start")
    /\ CASE Cur.key = "next" ->
              /\ promises' = Settle(PromiseOf(Cur.sub), "fulfilled", Cur.arg)
              /\ ReturnValue(Undefined)
         [] Cur.key = "error" ->
              /\ promises' = Settle(PromiseOf(Cur.sub), "rejected", Cur.arg)
              /\ ReturnValue(Undefined)
         [] OTHER ->
              /\ promises' = Settle(PromiseOf(Cur.sub), "fulfilled", Cur.arg)
              /\ ReturnValue(Undefined)
    /\ UNCHANGED callbackLog
    /\ LiteralFrame

\* a method of the literal is called: next calls fn, error is reject and
\* complete is resolve
eachEnter ==
    /\ At("each", "start")
    /\ CASE Cur.key = "next" ->
              /\ Invoke([Cur EXCEPT !.pc = "fn"],
                        ObsFrame("callback", "run", Cur.sub, None, Cur.arg))
              /\ UNCHANGED promises
         [] Cur.key = "error" ->
              /\ promises' = Settle(PromiseOf(Cur.sub), "rejected", Cur.arg)
              /\ ReturnValue(Undefined)
         [] OTHER ->
              /\ promises' = Settle(PromiseOf(Cur.sub), "fulfilled", Cur.arg)
              /\ ReturnValue(Undefined)
    /\ UNCHANGED callbackLog
    /\ LiteralFrame

\* try { return fn(value) } catch (e) { reject(e) }
eachCallback ==
    /\ At("each", "fn") /\ Completed
    /\ IF completion.type = "normal"
       THEN /\ ReturnValue(completion.val)
            /\ UNCHANGED promises
       ELSE /\ promises' = Settle(PromiseOf(Cur.sub), "rejected", completion.val)
            /\ ReturnValue(Undefined)
    /\ callbackLog' = Append(callbackLog,
           [sub |-> Cur.sub, arg |-> Cur.arg, type |-> completion.type,
            val |-> completion.val, open |-> ~closed(Cur.sub)])
    /\ LiteralFrame

----------------------------------------------------------------------------
\* The jobs of Observable.of and Observable.from

\* an event loop that starts the newest job first
runJobNewest ==
    /\ callStack = <<>>
    /\ jobs # <<>>
    /\ callStack' = <<ObsFrame("job", "start", jobs[Len(jobs)], None, None)>>
    /\ jobs' = SubSeq(jobs, 1, Len(jobs) - 1)
    /\ completion' = NoCompletion
    /\ UNCHANGED <<vars, callbackLog, promises, observables, subscriptions,
                   delivered, producerCalls, observeCalls, cleanupRuns,
                   userCalls>>

\* the event loop starts the oldest job once the running code has finished
runJob ==
    /\ callStack = <<>>
    /\ jobs # <<>>
    /\ callStack' = <<ObsFrame("job", "start", Head(jobs), None, None)>>
    /\ jobs' = Tail(jobs)
    /\ completion' = NoCompletion
    /\ UNCHANGED <<vars, callbackLog, promises, observables, subscriptions,
                   delivered, producerCalls, observeCalls, cleanupRuns,
                   userCalls>>

\* arguments in reverse order
itemsReversed(n) == [i \in 1..n |-> n + 1 - i]

\* the arguments of of(1, ..., n), and the items an iterable yields
items(n) == [i \in 1..n |-> i]

\* what the iteration of x does next in the job of from, after i items: the
\* iterable is user data, which yields any number of items up to the bound and
\* then ends or throws (an x that is not iterable throws at once)
IterationSteps(i) ==
    (IF i < MaxItems THEN {"item"} ELSE {}) \cup {"done", "throw"}

\* what the loop over the arguments does next in the job of of(1, ..., n)
ArgumentSteps(i, n) == IF i < n THEN {"item"} ELSE {"done"}

\* a loop that calls observer.complete() when the iteration throws
jobDeliverCompletesOnThrow(f) ==
    LET o == observables[subscriptions[f.sub].obs]
    IN  \E step \in IF o.kind = "of" THEN ArgumentSteps(f.i, o.n)
                                     ELSE IterationSteps(f.i) :
          CASE step = "item" ->
                 Invoke([f EXCEPT !.pc = "next", !.i = f.i + 1],
                        ObsFrame("next", "start", f.sub, None,
                                 items(IF o.kind = "of" THEN o.n ELSE MaxItems)[f.i + 1]))
            [] step = "throw" ->
                 Invoke([f EXCEPT !.pc = "error", !.exc = IterationError],
                        ObsFrame("complete", "start", f.sub, None, Undefined))
            [] OTHER ->
                 Invoke([f EXCEPT !.pc = "complete"],
                        ObsFrame("complete", "start", f.sub, None, Undefined))

\* the loop of the job, which as frame f has delivered f.i items: the next
\* item, or after the last one observer.complete(), or observer.error(e) when
\* the iteration throws
jobDeliver(f) ==
    LET o == observables[subscriptions[f.sub].obs]
    IN  \E step \in IF o.kind = "of" THEN ArgumentSteps(f.i, o.n)
                                     ELSE IterationSteps(f.i) :
          CASE step = "item" ->
                 Invoke([f EXCEPT !.pc = "next", !.i = f.i + 1],
                        ObsFrame("next", "start", f.sub, None,
                                 items(IF o.kind = "of" THEN o.n ELSE MaxItems)[f.i + 1]))
            [] step = "throw" ->
                 Invoke([f EXCEPT !.pc = "error", !.exc = IterationError],
                        ObsFrame("error", "start", f.sub, None, IterationError))
            [] OTHER ->
                 Invoke([f EXCEPT !.pc = "complete"],
                        ObsFrame("complete", "start", f.sub, None, Undefined))

\* a job that returns without delivering anything
jobEnterReturns ==
    /\ At("job", "start")
    /\ ReturnValue(Undefined)
    /\ UNCHANGED <<subscriptions, delivered, cleanupRuns>>
    /\ MethodFrame

jobEnter ==
    /\ At("job", "start")
    /\ IF closed(Cur.sub)
       THEN ReturnValue(Undefined)
       ELSE jobDeliver(Cur)
    /\ UNCHANGED <<subscriptions, delivered, cleanupRuns>>
    /\ MethodFrame

\* a job that ends normally when observer.next(item) throws
jobNextSwallows ==
    /\ At("job", "next") /\ Completed
    /\ IF completion.type = "throw" \/ closed(Cur.sub)
       THEN ReturnValue(Undefined)
       ELSE jobDeliver(Cur)
    /\ UNCHANGED <<subscriptions, delivered, cleanupRuns>>
    /\ MethodFrame

\* observer.next(item) has completed: an exception ends the job of of and is
\* passed to observer.error by the job of from
jobNext ==
    /\ At("job", "next") /\ Completed
    /\ IF completion.type = "throw"
       THEN IF kindOf(Cur.sub) = "of"
            THEN ThrowValue(completion.val)
            ELSE Invoke([Cur EXCEPT !.pc = "error", !.exc = completion.val],
                        ObsFrame("error", "start", Cur.sub, None, completion.val))
       ELSE IF closed(Cur.sub)
       THEN ReturnValue(Undefined)
       ELSE jobDeliver(Cur)
    /\ UNCHANGED <<subscriptions, delivered, cleanupRuns>>
    /\ MethodFrame

\* observer.complete() or observer.error(e) has completed: the job ends
jobDone ==
    /\ Cur.kind = "job" /\ Cur.pc \in {"complete", "error"} /\ Completed
    /\ IF completion.type = "normal"
       THEN ReturnValue(Undefined)
       ELSE ThrowValue(completion.val)
    /\ UNCHANGED <<subscriptions, delivered, cleanupRuns>>
    /\ MethodFrame

----------------------------------------------------------------------------
\* User code of the Observable layer: the code that runs first ("main"),
\* subscriber functions, handlers of raw observers, cleanup functions and the
\* callbacks given to map and filter.

UserRunning == Cur.kind \in ObsUserKinds
CanUserCall == UserRunning /\ userCalls < MaxUserCalls

Subscriptions == 1..Len(subscriptions)

\* user code holds the SubscriptionObserver s: its subscriber function got it
HoldsObserver(s) ==
    /\ kindOf(s) = "user"
    /\ \A i \in 1..Len(callStack) :
         ~(callStack[i].kind = "constructor" /\ callStack[i].sub = s
             /\ callStack[i].pc = "start")

\* user code holds the function that observe returned for s
HoldsHandle(s) ==
    /\ subscriptions[s].raw \notin {"wrapper", "each"}
    /\ \A i \in 1..Len(callStack) :
         ~(callStack[i].kind = "constructor" /\ callStack[i].sub = s)

\* a construction that calls the subscriber function at once
createdEager(o) ==
    /\ UserRunning
    /\ Len(observables) < MaxObservables
    /\ observables' = Append(observables, o)
    /\ producerCalls' = Append(producerCalls, 1)
    /\ observeCalls' = Append(observeCalls, 0)
    /\ UNCHANGED <<vars, callbackLog, promises, subscriptions, jobs, callStack,
                   completion, delivered, cleanupRuns, userCalls>>

\* new C(subscriber): the constructor stores the subscriber function
created(o) ==
    /\ UserRunning
    /\ Len(observables) < MaxObservables
    /\ observables' = Append(observables, o)
    /\ producerCalls' = Append(producerCalls, 0)
    /\ observeCalls' = Append(observeCalls, 0)
    /\ UNCHANGED <<vars, callbackLog, promises, subscriptions, jobs, callStack,
                   completion, delivered, cleanupRuns, userCalls>>

\* new Observable(subscriber)
newObservable == created(Observable("user", 0, 0))

\* Observable.of(1, ..., n)
of == \E n \in 0..MaxItems : created(Observable("of", n, 0))

\* Observable.from(x), x an iterable without Symbol.observable
from == created(Observable("from", 0, 0))

map == \E o \in 1..Len(observables) : created(Observable("map", 0, o))

filter == \E o \in 1..Len(observables) : created(Observable("filter", 0, o))

UserObserve(o, raw) ==
    /\ CanUserCall
    /\ Len(subscriptions) + SubscriptionsNeeded(o) <= MaxSubscriptions
    /\ observeOf(Cur, o, raw)
    /\ userCalls' = userCalls + 1
    /\ UNCHANGED <<vars, callbackLog, promises, observables, jobs, producerCalls>>

Observable_observe ==
    \E o \in 1..Len(observables), raw \in RawObservers \cup {NotObject} :
        UserObserve(o, raw)

\* o.forEach(fn), fn a function or not
Observable_forEach ==
    \E o \in 1..Len(observables), fn \in {Function, "a"} :
        /\ CanUserCall
        /\ Len(subscriptions) + SubscriptionsNeeded(o) <= MaxSubscriptions
        /\ Invoke(Cur, [ObsFrame("forEach", "start", 0, None, fn)
                           EXCEPT !.obj = o])
        /\ userCalls' = userCalls + 1
        /\ UNCHANGED <<vars, callbackLog, promises, observables,
                       subscriptions, jobs, delivered, producerCalls,
                       observeCalls, cleanupRuns>>

\* user code calls a method of SubscriptionObserver s
UserCalls(kind, s, v) ==
    /\ CanUserCall
    /\ Invoke(Cur, ObsFrame(kind, "start", s, None, v))
    /\ userCalls' = userCalls + 1
    /\ UNCHANGED <<vars, callbackLog, promises, observables, subscriptions,
                   jobs, delivered, producerCalls, observeCalls, cleanupRuns>>

UserNext == \E s \in Subscriptions : HoldsObserver(s) /\ UserCalls("next", s, "a")

UserError == \E s \in Subscriptions : HoldsObserver(s) /\ UserCalls("error", s, "a")

UserComplete ==
    \E s \in Subscriptions : HoldsObserver(s) /\ UserCalls("complete", s, "a")

\* observer.cancel(), or the function observe returned
UserCancel ==
    \E s \in Subscriptions :
        /\ HoldsObserver(s) \/ HoldsHandle(s)
        /\ UserCalls("cancel", s, None)

\* the values each kind of user code is modelled to return
ObsReturnValues(kind) ==
    CASE kind = "subscriber" -> {Undefined, Function, "a"}
      [] kind = "callback" -> {Undefined, "a"}
      [] OTHER -> {Undefined}

UserReturns ==
    /\ UserRunning
    /\ \E v \in ObsReturnValues(Cur.kind) : ReturnValue(v)
    /\ UNCHANGED <<vars, callbackLog, promises, observables, subscriptions,
                   jobs, delivered, producerCalls, observeCalls, cleanupRuns,
                   userCalls>>

UserThrows ==
    /\ UserRunning
    /\ ThrowValue(Thrown)
    /\ UNCHANGED <<vars, callbackLog, promises, observables, subscriptions,
                   jobs, delivered, producerCalls, observeCalls, cleanupRuns,
                   userCalls>>

----------------------------------------------------------------------------

InitObs ==
    /\ OneSubscriptionInit
    /\ observables = <<>>
    /\ subscriptions = <<>>
    /\ jobs = <<>>
    /\ callStack = <<ObsFrame("main", "run", 0, None, None)>>
    /\ completion = NoCompletion
    /\ delivered = <<>>
    /\ producerCalls = <<>>
    /\ observeCalls = <<>>
    /\ cleanupRuns = <<>>
    /\ userCalls = 0
    /\ callbackLog = <<>>
    /\ promises = <<>>

NextObs ==
    \/ newObservable
    \/ of
    \/ from
    \/ map
    \/ filter
    \/ Observable_observe
    \/ constructorEnter
    \/ constructorReturned
    \/ constructorCaught
    \/ constructorCleaned
    \/ UserNext
    \/ UserError
    \/ UserComplete
    \/ UserCancel
    \/ UserReturns
    \/ UserThrows
    \/ cancelEnter
    \/ cancelCleaned
    \/ nextEnter
    \/ nextReturned
    \/ nextCaught
    \/ errorEnter
    \/ terminalReturned("error")
    \/ terminalCleaned("error")
    \/ terminalCaught("error")
    \/ completeEnter
    \/ terminalReturned("complete")
    \/ terminalCleaned("complete")
    \/ terminalCaught("complete")
    \/ wrapperEnter
    \/ wrapperCallback
    \/ wrapperForwarded
    \/ runJob
    \/ jobEnter
    \/ jobNext
    \/ jobDone

SpecObs == InitObs /\ [][NextObs]_<<obsVars, vars>>

\* a step of library code: of the constructor, of a SubscriptionObserver
\* method, of the observer of map and filter, or of a job that has started
LibraryStep ==
    \/ constructorEnter \/ constructorReturned
    \/ constructorCaught \/ constructorCleaned
    \/ cancelEnter \/ cancelCleaned
    \/ nextEnter \/ nextReturned \/ nextCaught
    \/ errorEnter \/ completeEnter
    \/ \E kind \in {"error", "complete"} :
         terminalReturned(kind) \/ terminalCleaned(kind) \/ terminalCaught(kind)
    \/ wrapperEnter \/ wrapperCallback \/ wrapperForwarded
    \/ jobEnter \/ jobNext \/ jobDone

\* The Observable layer under a fair scheduler: every enqueued job is started
\* once the running code has finished, library code that is running goes on
\* to its end, and user code (the program, handlers, callbacks, subscriber
\* and cleanup functions) eventually returns or throws.
SpecFair ==
    /\ SpecObs
    /\ WF_<<obsVars, vars>>(runJob)
    /\ WF_<<obsVars, vars>>(LibraryStep)
    /\ WF_<<obsVars, vars>>(UserReturns \/ UserThrows)

\* The third specification: user code consumes its Observables with forEach.
\* The handlers of the literal of forEach never throw, so the catch blocks of
\* next, error and complete are never entered and have no step here.
NextEach ==
    \/ newObservable
    \/ of
    \/ from
    \/ Observable_forEach
    \/ forEachEnter
    \/ forEachObserved
    \/ eachEnter
    \/ eachCallback
    \/ constructorEnter
    \/ constructorReturned
    \/ constructorCaught
    \/ constructorCleaned
    \/ UserNext
    \/ UserError
    \/ UserComplete
    \/ UserCancel
    \/ UserReturns
    \/ UserThrows
    \/ cancelEnter
    \/ cancelCleaned
    \/ nextEnter
    \/ nextReturned
    \/ errorEnter
    \/ terminalReturned("error")
    \/ terminalCleaned("error")
    \/ completeEnter
    \/ terminalReturned("complete")
    \/ terminalCleaned("complete")
    \/ runJob
    \/ jobEnter
    \/ jobNext
    \/ jobDone

SpecEach == InitObs /\ [][NextEach]_<<obsVars, vars>>

----------------------------------------------------------------------------
\* Properties of the Observable layer

Observables == 1..Len(observables)
MethodKinds == {"constructor", "next", "error", "complete", "cancel"}

\* the frame above the frames of the current state, after a step that called
Called == callStack'[Len(callStack')]

\* observe has created subscription s and has not yet called the subscriber
SetupPending(s) ==
    \E i \in 1..Len(callStack) :
        /\ callStack[i].kind = "constructor"
        /\ callStack[i].pc = "start"
        /\ callStack[i].sub = s

\* the number of subscriptions of o whose subscriber call has been made
SubscribersCalled(o) ==
    Cardinality({s \in Subscriptions :
                    subscriptions[s].obs = o /\ ~SetupPending(s)})

\* the job that of/from enqueued for s is still in the queue
Queued(s) == \E i \in 1..Len(jobs) : jobs[i] = s

\* the code that is running was started as the job of s
InJobOf(s) ==
    /\ callStack # <<>>
    /\ callStack[1].kind = "job"
    /\ callStack[1].sub = s

\* the job of s has just ended at this pc
JobEnded(s, pc) ==
    /\ callStack = <<>>
    /\ completion.type # None
    /\ completion.of.kind = "job"
    /\ completion.of.sub = s
    /\ completion.of.pc = pc

\* p is an initial part of q
IsPrefix(p, q) == Len(p) <= Len(q) /\ p = SubSeq(q, 1, Len(p))

\* the subscriber function is invoked only by the constructor of a
\* subscription to its Observable, once, and is given that subscription; no
\* construction invokes a subscriber function or a raw observer
ProducerLaziness ==
    /\ [][\A o \in Observables :
            producerCalls'[o] # producerCalls[o] =>
                /\ At("constructor", "start")
                /\ subscriptions[Cur.sub].obs = o
                /\ producerCalls'[o] = producerCalls[o] + 1
                /\ CASE observables[o].kind = "user" ->
                          /\ Called.kind = "subscriber"
                          /\ Called.sub = Cur.sub
                     [] observables[o].kind \in {"of", "from"} ->
                          jobs' = Append(jobs, Cur.sub)
                     [] OTHER ->
                          /\ Len(subscriptions') = Len(subscriptions) + 1
                          /\ subscriptions'[Len(subscriptions')].raw = "wrapper"
                          /\ downstream(Len(subscriptions')) = Cur.sub]_obsVars
    /\ [][Len(observables') # Len(observables) =>
            /\ producerCalls' = Append(producerCalls, 0)
            /\ UNCHANGED <<subscriptions, jobs, callStack, delivered>>]_obsVars
    /\ [](\A s \in Subscriptions :
            delivered[s] # <<>> =>
                /\ observeCalls[subscriptions[s].obs] >= 1
                /\ ~SetupPending(s))

\* C16 as stated: the subscriber function has been invoked exactly once per
\* observe call on its Observable (once the call has got to invoking it), it
\* is given that subscription, it is never invoked by a construction (new
\* Observable, of, from, map, filter), and no raw-observer method is invoked
\* before an observe call.
ProducerOncePerSubscribeCall ==
    /\ [](\A o \in Observables :
            (\A s \in Subscriptions : ~SetupPending(s)) =>
                producerCalls[o] = observeCalls[o])
    /\ ProducerLaziness

\* C16 as amended: the subscriber function has been invoked exactly once per
\* subscription, that is once per observe call whose observer argument is an
\* object; an observe call with an argument that is not an object throws a
\* TypeError, creates no subscription and invokes nothing.  The rest as
\* stated.
ProducerOncePerSubscription ==
    /\ [](\A o \in Observables : producerCalls[o] = SubscribersCalled(o))
    /\ [][\A o \in Observables :
            observeCalls'[o] # observeCalls[o] =>
                /\ observeCalls'[o] = observeCalls[o] + 1
                /\ \/ /\ Len(subscriptions') = Len(subscriptions) + 1
                      /\ subscriptions'[Len(subscriptions')].obs = o
                      /\ Called = ObsFrame("constructor", "start",
                                           Len(subscriptions'), None, None)
                   \/ /\ completion'.type = "throw"
                      /\ completion'.val = TypeError
                      /\ UNCHANGED <<subscriptions, producerCalls, callStack,
                                     delivered, jobs>>]_obsVars
    /\ ProducerLaziness

\* an Observable made by map has been subscribed to once and has rejected one
\* observe call: its subscriber function and the one of its source have each
\* been invoked once
ProducerOncePerSubscriptionWitness ==
    \E o \in Observables :
        /\ observables[o].kind = "map"
        /\ observeCalls[o] = 2
        /\ producerCalls[o] = 1
        /\ producerCalls[observables[o].src] = 1
        /\ callStack = <<>>

\* C17: the fields of a subscription (the reference to the raw observer, that
\* is its open/closed state, and the stored cleanup) are changed only by a
\* step of one of its own methods, so an operation on one subscription leaves
\* every other subscription as it is; and the cleanup of a subscription is
\* invoked only by one of its own methods, when that subscription is closed.
SubscriptionsIndependent ==
    /\ [][\A t \in Subscriptions :
            subscriptions'[t] # subscriptions[t] =>
                (Cur.kind \in MethodKinds /\ Cur.sub = t)]_obsVars
    /\ [][\A t \in Subscriptions :
            cleanupRuns'[t] # cleanupRuns[t] =>
                /\ Cur.kind \in MethodKinds /\ Cur.sub = t
                /\ cleanupRuns'[t] = cleanupRuns[t] + 1
                /\ subscriptions'[t]._cleanup = Undefined
                /\ subscriptions'[t]._observer = Undefined]_obsVars

\* two subscriptions of one Observable, each with a stored cleanup: the first
\* has been cancelled and cleaned up, the second is open with its cleanup
\* still stored
SubscriptionsIndependentWitness ==
    /\ Len(subscriptions) = 2
    /\ subscriptions[1].obs = subscriptions[2].obs
    /\ closed(1) /\ cleanupRuns[1] = 1
    /\ ~closed(2) /\ subscriptions[2]._cleanup = Function /\ cleanupRuns[2] = 0
    /\ completion.type = "normal" /\ completion.of.kind = "cancel"
    /\ completion.of.sub = 1

\* C18: whenever cancel (the function observe returns) has returned, the
\* subscription is closed; a job of of/from that starts on a closed
\* subscription ends at once and changes nothing; while the job is queued
\* nothing has been delivered, and a closed subscription to of/from stays
\* closed and receives nothing more: a subscription cancelled before its job
\* runs receives neither next nor complete.
CancelBeforeJobDeliversNothing ==
    /\ []((completion.type # None /\ completion.of.kind = "cancel") =>
            closed(completion.of.sub))
    /\ [][(At("job", "start") /\ closed(Cur.sub)) =>
            /\ callStack' = <<>>
            /\ completion'.type = "normal"
            /\ UNCHANGED <<subscriptions, delivered, cleanupRuns, jobs>>]_obsVars
    /\ [](\A s \in Subscriptions : Queued(s) => delivered[s] = <<>>)
    /\ [][\A s \in Subscriptions :
            (kindOf(s) \in {"of", "from"} /\ closed(s)) =>
                /\ subscriptions'[s]._observer = Undefined
                /\ delivered'[s] = delivered[s]]_obsVars

\* the job of a subscription to of(1, 2) with a full raw observer has run
\* after the subscription was cancelled, and nothing has been delivered
CancelBeforeJobDeliversNothingWitness ==
    \E s \in Subscriptions :
        /\ kindOf(s) = "of"
        /\ observables[subscriptions[s].obs].n = 2
        /\ subscriptions[s].raw = "full"
        /\ closed(s)
        /\ JobEnded(s, "start")
        /\ delivered[s] = <<>>

\* what a raw observer with all handlers receives from of(1, ..., n)
OfDeliveries(n) ==
    [i \in 1..(n + 1) |->
        IF i <= n THEN <<"next", i>> ELSE <<"complete", Undefined>>]

\* C19: for a subscription to of(1, ..., n): the raw observer is invoked only
\* inside the job of the subscription, which runs after observe has returned
\* and the running code has finished; what it has received is an initial part
\* of next(1), ..., next(n), complete(); when the job gets to complete() with
\* all handlers present it has received all of them, complete once; after a
\* delivery that leaves the subscription closed the job ends and nothing more
\* is delivered, and after one that leaves it open the job delivers the next
\* argument, or complete after the last.
OfDeliversInOrder ==
    /\ [](\A s \in Subscriptions :
            kindOf(s) = "of" =>
                /\ IsPrefix(delivered[s],
                            OfDeliveries(observables[subscriptions[s].obs].n))
                /\ (Queued(s) \/ SetupPending(s)) => delivered[s] = <<>>
                /\ (JobEnded(s, "complete") /\ subscriptions[s].raw = "full") =>
                       delivered[s] =
                           OfDeliveries(observables[subscriptions[s].obs].n))
    /\ [][\A s \in Subscriptions :
            (kindOf(s) = "of" /\ delivered'[s] # delivered[s]) =>
                (InJobOf(s) /\ ~closed(s))]_obsVars
    /\ [][(At("job", "next") /\ kindOf(Cur.sub) = "of"
              /\ completion.type = "normal") =>
            IF closed(Cur.sub)
            THEN callStack' = <<>> /\ UNCHANGED delivered
            ELSE IF Cur.i < observables[subscriptions[Cur.sub].obs].n
            THEN Called = ObsFrame("next", "start", Cur.sub, None, Cur.i + 1)
            ELSE Called = ObsFrame("complete", "start", Cur.sub, None,
                                   Undefined)]_obsVars

\* a subscription to of(1, 2) was closed during the delivery of the first
\* argument without the handler throwing: the job has ended and the raw
\* observer has received next(1) only
OfDeliversInOrderWitness ==
    \E s \in Subscriptions :
        /\ kindOf(s) = "of"
        /\ observables[subscriptions[s].obs].n = 2
        /\ closed(s)
        /\ JobEnded(s, "next")
        /\ completion.type = "normal"
        /\ delivered[s] = <<<<"next", 1>>>>

\* next(1), ..., next(k)
NextDeliveries(k) == [i \in 1..k |-> <<"next", i>>]

\* C20: for a subscription to from(x), x an iterable that yields 1, 2, ...:
\* the raw observer is invoked only inside the job of the subscription; it
\* receives next(1), next(2), ... in order, followed by at most one complete
\* or error; after a delivery that leaves the subscription closed the job
\* ends and nothing more is delivered; when the iteration throws e the job
\* calls error(e), a raw observer with all handlers receives error(e) after
\* the items and no complete; when the iteration ends normally it receives
\* the items and then one complete.
FromDeliversInOrder ==
    /\ [](\A s \in Subscriptions :
            kindOf(s) = "from" =>
                /\ \E k \in 0..Len(delivered[s]) :
                     \/ delivered[s] = NextDeliveries(k)
                     \/ delivered[s] = Append(NextDeliveries(k),
                                              <<"complete", Undefined>>)
                     \/ delivered[s] = Append(NextDeliveries(k),
                                              <<"error", IterationError>>)
                /\ (Queued(s) \/ SetupPending(s)) => delivered[s] = <<>>
                /\ (JobEnded(s, "complete") /\ subscriptions[s].raw = "full") =>
                       delivered[s] = Append(NextDeliveries(completion.of.i),
                                             <<"complete", Undefined>>)
                /\ (JobEnded(s, "error") /\ subscriptions[s].raw = "full"
                        /\ completion.of.exc = IterationError) =>
                       delivered[s] = Append(NextDeliveries(completion.of.i),
                                             <<"error", IterationError>>))
    /\ [][\A s \in Subscriptions :
            (kindOf(s) = "from" /\ delivered'[s] # delivered[s]) =>
                (InJobOf(s) /\ ~closed(s))]_obsVars
    /\ [][(At("job", "next") /\ kindOf(Cur.sub) = "from"
              /\ completion.type = "normal" /\ closed(Cur.sub)) =>
            (callStack' = <<>> /\ UNCHANGED delivered)]_obsVars
    /\ [][(Cur.kind = "job" /\ kindOf(Cur.sub) = "from"
              /\ Len(callStack') = 2
              /\ callStack'[1].exc = IterationError) =>
            Called = ObsFrame("error", "start", Cur.sub, None,
                              IterationError)]_obsVars

\* the iteration of a subscription to from(x) threw after two items: the raw
\* observer has received next(1), next(2) and error with the thrown value
FromDeliversInOrderWitness ==
    \E s \in Subscriptions :
        /\ kindOf(s) = "from"
        /\ JobEnded(s, "error")
        /\ delivered[s] = <<<<"next", 1>>, <<"next", 2>>,
                            <<"error", IterationError>>>>


----------------------------------------------------------------------------
\* Properties of map and filter

\* the subscriptions made by observe on an Observable of map or filter whose
\* source subscription exists
Derived ==
    {d \in Subscriptions : /\ kindOf(d) \in {"map", "filter"}
                           /\ upstream(d) \in Subscriptions}

\* the calls of fn made for the source subscription u, oldest first
Log(u) == SelectSeq(callbackLog, LAMBDA r : r.sub = u)

\* the position of the first call of fn in L that threw, 0 if none did
FirstThrow(L) ==
    IF \E k \in 1..Len(L) : L[k].type = "throw"
    THEN CHOOSE k \in 1..Len(L) :
            /\ L[k].type = "throw"
            /\ \A j \in 1..(k - 1) : L[j].type # "throw"
    ELSE 0

\* the values an Observable of this kind passes downstream for the calls L of
\* fn, none of which threw: the results of map, the arguments filter accepted
RECURSIVE Outputs(_, _)
Outputs(kind, L) ==
    IF L = <<>> THEN <<>>
    ELSE (IF kind = "map" THEN <<Head(L).val>>
          ELSE IF Head(L).val \in Falsy THEN <<>>
          ELSE <<Head(L).arg>>) \o Outputs(kind, Tail(L))

NextEntries(vs) == [i \in 1..Len(vs) |-> <<"next", vs[i]>>]

\* C21: for map and filter, when fn throws on a value while the downstream
\* subscription is open, the downstream observer has received the values
\* before it, then receives one error with exactly the thrown value, and
\* receives nothing after it, whichever way the source pushes its values.
CallbackThrowRoutedToError ==
    \A d \in Derived :
        LET L == Log(upstream(d))
            k == FirstThrow(L)
            before == NextEntries(Outputs(kindOf(d), SubSeq(L, 1, k - 1)))
        IN  (subscriptions[d].raw = "full" /\ k > 0 /\ L[k].open) =>
               \/ delivered[d] = before \o <<<<"error", L[k].val>>>>
               \/ /\ delivered[d] = before
                  /\ At("error", "start")
                  /\ Cur.sub = d
                  /\ Cur.arg = L[k].val

\* fn returned for one value and threw on the next; the downstream observer
\* got the first result and then the error
CallbackThrowRoutedToErrorWitness ==
    \E d \in Derived :
        LET L == Log(upstream(d))
        IN  /\ subscriptions[d].raw = "full"
            /\ kindOf(d) = "map"
            /\ Len(L) = 2
            /\ L[1].type = "normal" /\ L[2].type = "throw"
            /\ delivered[d] = <<<<"next", L[1].val>>, <<"error", Thrown>>>>
            /\ callStack = <<>>

\* the next entries among the handler invocations es
NextsOf(es) == SelectSeq(es, LAMBDA e : e[1] = "next")

\* C22: for filter, a value for which fn returns a false value is not
\* delivered, closes no subscription and lets the call of next return, so
\* later values are still evaluated; the downstream observer receives, in
\* source order, exactly the values for which fn returned a true value.
FilterDeliversAccepted ==
    /\ [](\A d \in Derived :
            LET L == Log(upstream(d))
                k == FirstThrow(L)
                accepted == NextEntries(Outputs("filter",
                               IF k = 0 THEN L ELSE SubSeq(L, 1, k - 1)))
            IN  (kindOf(d) = "filter" /\ subscriptions[d].raw = "full") =>
                   /\ IsPrefix(NextsOf(delivered[d]), accepted)
                   /\ (~closed(d) /\ ~(At("next", "start") /\ Cur.sub = d)) =>
                          NextsOf(delivered[d]) = accepted)
    /\ [][(/\ At("wrapper", "fn") /\ Completed
           /\ kindOf(downstream(Cur.sub)) = "filter"
           /\ completion.type = "normal"
           /\ completion.val \in Falsy) =>
            /\ subscriptions' = subscriptions
            /\ delivered' = delivered
            /\ callStack' = Rest
            /\ completion'.type = "normal"]_<<obsVars, vars>>

\* fn rejected the first value and accepted the second; both subscriptions
\* are open and the downstream observer has received the second value only
FilterDeliversAcceptedWitness ==
    \E d \in Derived :
        LET L == Log(upstream(d))
        IN  /\ kindOf(d) = "filter"
            /\ subscriptions[d].raw = "full"
            /\ Len(L) = 2
            /\ L[1].type = "normal" /\ L[1].val \in Falsy
            /\ L[2].type = "normal" /\ L[2].val \notin Falsy
            /\ delivered[d] = <<<<"next", L[2].arg>>>>
            /\ L[1].arg # L[2].arg
            /\ ~closed(d) /\ ~closed(upstream(d))

\* the constructor of subscription d is no longer running: observe has
\* returned to its caller
SetupDone(d) ==
    \A i \in 1..Len(callStack) :
        ~(callStack[i].kind = "constructor" /\ callStack[i].sub = d)

\* no library code of the subscriptions in S is on the call stack
Idle(S) ==
    \A i \in 1..Len(callStack) :
        callStack[i].sub \in S => callStack[i].kind \in ObsUserKinds

----------------------------------------------------------------------------
\* Properties of forEach

\* the subscriptions made by forEach
EachSubscriptions == {s \in Subscriptions : subscriptions[s].raw = "each"}

\* C24: once the fn of forEach has thrown on a value, the Promise is rejected
\* with exactly the thrown value, fn is not invoked for any later value, and
\* when the call of next has returned the subscription is closed and its
\* cleanup slot is empty (the cleanup has run).
ForEachThrowCloses ==
    /\ [](\A s \in EachSubscriptions :
            LET L == Log(s)
                k == FirstThrow(L)
            IN  k > 0 =>
                   /\ promises[PromiseOf(s)].state = "rejected"
                   /\ promises[PromiseOf(s)].val = L[k].val
                   /\ Idle({s}) => /\ closed(s)
                                   /\ subscriptions[s]._cleanup = Undefined)
    /\ [][\A s \in EachSubscriptions :
            FirstThrow(Log(s)) > 0 =>
                NextsOf(delivered'[s]) = NextsOf(delivered[s])]_<<obsVars, vars>>

\* C25: for forEach with a function fn: fn is invoked with each pushed value,
\* in order; when the source delivers error the Promise is rejected with
\* exactly the error value, when it delivers complete the Promise is
\* fulfilled with exactly the completion value; the Promise is settled at most
\* once, and it is pending while the subscription is open and fn has not
\* thrown.
ForEachSettlesWithTerminal ==
    /\ [][(At("each", "start") /\ Cur.key = "next") =>
            /\ Called.kind = "callback"
            /\ Called.sub = Cur.sub
            /\ Called.arg = Cur.arg]_<<obsVars, vars>>
    /\ [](\A s \in EachSubscriptions :
            kindOf(s) = "of" =>
                IsPrefix(NextsOf(delivered[s]),
                         NextEntries(items(observables[subscriptions[s].obs].n))))
    /\ [](\A s \in EachSubscriptions :
            LET last == delivered[s][Len(delivered[s])]
                p == promises[PromiseOf(s)]
            IN  (delivered[s] # <<>> /\ ~(At("each", "start") /\ Cur.sub = s)) =>
                   /\ last[1] = "error" =>
                         p.state = "rejected" /\ p.val = last[2]
                   /\ last[1] = "complete" =>
                         p.state = "fulfilled" /\ p.val = last[2])
    /\ [][\A p \in 1..Len(promises) :
            promises[p].state # "pending" =>
                promises'[p] = promises[p]]_<<obsVars, vars>>
    /\ [](\A s \in EachSubscriptions :
            (~closed(s) /\ FirstThrow(Log(s)) = 0) =>
                promises[PromiseOf(s)].state = "pending")

\* C26: forEach with an argument that is no function does not throw: it
\* returns a Promise that is rejected with a TypeError, and it creates no
\* subscription and invokes no subscriber function.
ForEachNonCallableRejects ==
    [][(At("forEach", "start") /\ ~isFunction(Cur.arg)) =>
          /\ callStack' = Rest
          /\ completion'.type = "normal"
          /\ completion'.val = "promise"
          /\ promises' = Append(promises,
                [state |-> "rejected", val |-> TypeError, sub |-> 0])
          /\ UNCHANGED <<subscriptions, producerCalls, observeCalls, jobs,
                         delivered>>]_<<obsVars, vars>>

\* forEach has returned a rejected Promise for an Observable that has never
\* been subscribed to
ForEachNonCallableRejectsWitness ==
    /\ completion.type = "normal"
    /\ completion.of.kind = "forEach" /\ completion.of.pc = "start"
    /\ promises = <<[state |-> "rejected", val |-> TypeError, sub |-> 0]>>
    /\ subscriptions = <<>>
    /\ producerCalls[completion.of.obj] = 0

----------------------------------------------------------------------------
\* The fourth specification: the program
\*     Observable.of(1, ..., n).map(n => n * n).filter(n => n > 10)
\*         .forEach(n => console.log(n))
\* of the README, for every n up to PipelineItems.

PipelineItems == 5

\* the main program builds the three Observables, one after the other
PipelineConstruct ==
    /\ Cur.kind = "main"
    /\ Len(observables) < 3
    /\ \E n \in IF observables = <<>> THEN 0..PipelineItems ELSE {0} :
          observables' = Append(observables,
              CASE Len(observables) = 0 -> Observable("of", n, 0)
                [] Len(observables) = 1 -> Observable("map", 0, 1)
                [] OTHER -> Observable("filter", 0, 2))
    /\ producerCalls' = Append(producerCalls, 0)
    /\ observeCalls' = Append(observeCalls, 0)
    /\ UNCHANGED <<vars, callbackLog, promises, subscriptions, jobs, callStack,
                   completion, delivered, cleanupRuns, userCalls>>

\* and calls forEach of the last one with a function
PipelineForEach ==
    /\ Cur.kind = "main"
    /\ Len(observables) = 3
    /\ promises = <<>>
    /\ completion = NoCompletion
    /\ Invoke(Cur, [ObsFrame("forEach", "start", 0, None, Function)
                       EXCEPT !.obj = 3])
    /\ userCalls' = userCalls + 1
    /\ UNCHANGED <<vars, callbackLog, promises, observables, subscriptions,
                   jobs, delivered, producerCalls, observeCalls, cleanupRuns>>

\* forEach has returned the Promise: the main program ends
PipelineReturn ==
    /\ Cur.kind = "main"
    /\ Completed
    /\ ReturnValue(Undefined)
    /\ UNCHANGED <<vars, callbackLog, promises, observables, subscriptions,
                   jobs, delivered, producerCalls, observeCalls, cleanupRuns,
                   userCalls>>

\* the three functions of the program: n => n * n is the fn of map,
\* n => n > 10 the fn of filter, n => console.log(n) the fn of forEach
PipelineCallback ==
    /\ Cur.kind = "callback"
    /\ ReturnValue(
          IF subscriptions[Cur.sub].raw = "each" THEN Undefined
          ELSE IF kindOf(downstream(Cur.sub)) = "map" THEN Cur.arg * Cur.arg
          ELSE IF Cur.arg > 10 THEN "true" ELSE "false")
    /\ UNCHANGED <<vars, callbackLog, promises, observables, subscriptions,
                   jobs, delivered, producerCalls, observeCalls, cleanupRuns,
                   userCalls>>

NextPipeline ==
    \/ PipelineConstruct
    \/ PipelineForEach
    \/ PipelineReturn
    \/ PipelineCallback
    \/ forEachEnter
    \/ forEachObserved
    \/ eachEnter
    \/ eachCallback
    \/ constructorEnter
    \/ constructorReturned
    \/ cancelEnter
    \/ nextEnter
    \/ nextReturned
    \/ completeEnter
    \/ terminalReturned("complete")
    \/ terminalCleaned("complete")
    \/ wrapperEnter
    \/ wrapperCallback
    \/ wrapperForwarded
    \/ runJob
    \/ jobEnter
    \/ jobNext
    \/ jobDone

SpecPipeline == InitObs /\ [][NextPipeline]_<<obsVars, vars>>

----------------------------------------------------------------------------
\* Properties of the program of the README

\* the squares of 1..n that are greater than 10, in order
Expected(n) == SelectSeq([i \in 1..n |-> i * i], LAMBDA v : v > 10)

\* C27: of(1, ..., n) through map(n => n * n), filter(n => n > 10) and
\* forEach gives the fn of forEach exactly the squares greater than 10, in
\* order (16 and 25 for n = 5); the Promise is fulfilled only when map and
\* filter have evaluated every source value, no fn is invoked after that, and
\* the Promise is fulfilled when the program has run to its end.
PipelineDeliversSquares ==
    /\ [](promises # <<>> =>
            LET n == observables[1].n
                got == delivered[1]
            IN  /\ IsPrefix(NextsOf(got), NextEntries(Expected(n)))
                /\ promises[1].state # "rejected"
                /\ promises[1].state = "fulfilled" =>
                      /\ got = NextEntries(Expected(n))
                                  \o <<<<"complete", Undefined>>>>
                      /\ [i \in 1..n |-> Log(3)[i].arg] = items(n)
                      /\ [i \in 1..n |-> Log(2)[i].arg] = [i \in 1..n |-> i * i]
                      /\ Len(callbackLog) = 2 * n + Len(Expected(n))
                      /\ \A i \in 1..Len(callStack) :
                            callStack[i].kind # "callback"
                /\ (callStack = <<>> /\ jobs = <<>>) =>
                      promises[1].state = "fulfilled")
    /\ [][(promises # <<>> /\ promises[1].state = "fulfilled") =>
            callbackLog' = callbackLog]_<<obsVars, vars>>

\* the program with the five items of the README has run to its end
PipelineDeliversSquaresWitness ==
    /\ Len(observables) = 3
    /\ observables[1].n = 5
    /\ promises # <<>>
    /\ promises[1].state = "fulfilled"
    /\ delivered[1] = <<<<"next", 16>>, <<"next", 25>>,
                         <<"complete", Undefined>>>>
    /\ callStack = <<>> /\ jobs = <<>>

----------------------------------------------------------------------------
\* Properties of the jobs of Observable.of and Observable.from

\* the subscriptions of a raw observer of user code to an Observable made by
\* of or from
SourceSubscriptions ==
    {s \in Subscriptions : /\ kindOf(s) \in {"of", "from"}
                           /\ subscriptions[s].raw \in RawObservers}

\* inside the job of s the next method of the raw observer has thrown, and
\* the exception is on its way out of observer.next and of the job
NextThrew(s) ==
    /\ InJobOf(s)
    /\ \/ /\ At("next", "call") /\ Cur.sub = s
          /\ completion.type = "throw"
       \/ \E i \in DOMAIN callStack :
            /\ callStack[i].kind = "next" /\ callStack[i].sub = s
            /\ callStack[i].pc = "catch" /\ callStack[i].exc = Thrown
       \/ /\ At("job", "next")
          /\ completion.type = "throw" /\ completion.val = Thrown
       \/ /\ callStack[1].pc = "error" /\ callStack[1].exc = Thrown

\* the job of s has ended by throwing the exception of the next method
ThrewOut(s) ==
    /\ \/ JobEnded(s, "next") /\ kindOf(s) = "of"
       \/ JobEnded(s, "error") /\ completion.of.exc = Thrown
    /\ completion.type = "throw"
    /\ completion.val = Thrown

\* C32: in a subscription to of or from, when the next method of the raw
\* observer throws during the job, the exception travels out of
\* observer.next and out of the job without any further delivery; the
\* subscription is closed when the exception reaches the job; the raw
\* observer has then received the items up to the failing one and nothing
\* else (no complete, and no error with that exception), and a closed
\* subscription receives nothing afterwards.
NextThrowEndsJob ==
    /\ [][\A s \in SourceSubscriptions :
            (/\ Cur.kind = "handler" /\ Cur.key = "next" /\ Cur.sub = s
             /\ InJobOf(s)
             /\ callStack' = Rest /\ completion'.type = "throw") =>
                NextThrew(s)']_obsVars
    /\ [][\A s \in SourceSubscriptions :
            NextThrew(s) =>
                /\ NextThrew(s)' \/ ThrewOut(s)'
                /\ delivered'[s] = delivered[s]]_obsVars
    /\ [](\A s \in SourceSubscriptions :
            NextThrew(s) =>
                /\ callStack[1].i >= 1
                /\ delivered[s] = NextDeliveries(callStack[1].i)
                /\ Cur.kind = "job" => closed(s))
    /\ [](\A s \in SourceSubscriptions :
            ThrewOut(s) =>
                /\ closed(s)
                /\ completion.of.i >= 1
                /\ delivered[s] = NextDeliveries(completion.of.i))
    /\ [][\A s \in SourceSubscriptions :
            closed(s) => delivered'[s] = delivered[s]]_obsVars

\* the next method of the raw observer of a subscription to from(x) threw at
\* the second item: the job has ended by throwing that exception and the raw
\* observer has received next(1) and next(2) only
NextThrowEndsJobWitness ==
    \E s \in Subscriptions :
        /\ kindOf(s) = "from"
        /\ subscriptions[s].raw = "full"
        /\ ThrewOut(s)
        /\ closed(s)
        /\ delivered[s] = <<<<"next", 1>>, <<"next", 2>>>>

\* C33: a subscription to of or from enqueues exactly one job, when the
\* subscriber function runs at subscribe time; the job is started once, from
\* the head of the queue, and every delivery to the raw observer happens
\* inside it.  Of two such subscriptions the one made first receives all its
\* deliveries (next and complete) before the one made second receives any.
JobsDoNotInterleave ==
    /\ [][(At("constructor", "start") /\ kindOf(Cur.sub) \in {"of", "from"}) =>
            /\ ~Queued(Cur.sub) /\ ~InJobOf(Cur.sub)
            /\ jobs' = Append(jobs, Cur.sub)]_obsVars
    /\ [][jobs' # jobs =>
            \/ /\ At("constructor", "start")
               /\ kindOf(Cur.sub) \in {"of", "from"}
               /\ jobs' = Append(jobs, Cur.sub)
            \/ /\ callStack = <<>> /\ jobs # <<>>
               /\ jobs' = Tail(jobs)
               /\ Len(callStack') = 1
               /\ callStack'[1].kind = "job"
               /\ callStack'[1].sub = Head(jobs)]_obsVars
    /\ [](\A i, j \in 1..Len(jobs) : jobs[i] = jobs[j] => i = j)
    /\ [](\A s \in Subscriptions :
            (Queued(s) \/ SetupPending(s)) =>
                (~InJobOf(s) /\ delivered[s] = <<>>))
    /\ [][\A s \in SourceSubscriptions :
            (InJobOf(s)' /\ ~InJobOf(s)) =>
                (Queued(s) /\ ~Queued(s)' /\ delivered[s] = <<>>)]_obsVars
    /\ [][\A s \in SourceSubscriptions :
            delivered'[s] # delivered[s] => (InJobOf(s) /\ InJobOf(s)')]_obsVars
    /\ [][\A s, t \in SourceSubscriptions :
            (s < t /\ delivered'[s] # delivered[s]) =>
                (delivered[t] = <<>> /\ delivered'[t] = <<>>)]_obsVars

\* two subscriptions to of(1, 2): the first has received both items and
\* complete, and the second is receiving its first item
JobsDoNotInterleaveWitness ==
    /\ Len(subscriptions) = 2
    /\ kindOf(1) = "of" /\ kindOf(2) = "of"
    /\ subscriptions[1].raw = "full" /\ subscriptions[2].raw = "full"
    /\ delivered[1] = <<<<"next", 1>>, <<"next", 2>>, <<"complete", Undefined>>>>
    /\ delivered[2] = <<<<"next", 1>>>>
    /\ InJobOf(2)
    /\ Cur.kind = "handler" /\ Cur.sub = 2

\* C34: under a fair scheduler and with user code that returns, every
\* subscription to of(...) or to from(x) is eventually closed, by a cancel or
\* by the error or complete call of its job.
SourceEventuallyClosed ==
    \A s \in 1..MaxSubscriptions :
        (s \in Subscriptions /\ kindOf(s) \in {"of", "from"})
            ~> (s \in Subscriptions /\ closed(s))

\* the job of a subscription to of(1, 2) whose raw observer has no methods
\* has run to its end, and its call of complete has closed the subscription
SourceEventuallyClosedWitness ==
    \E s \in Subscriptions :
        /\ kindOf(s) = "of"
        /\ observables[subscriptions[s].obs].n = 2
        /\ subscriptions[s].raw = "none"
        /\ JobEnded(s, "complete")
        /\ completion.of.i = 2
        /\ closed(s)
        /\ jobs = <<>>
====
